---- MODULE Spec2Model ----
(***************************************************************************)
(* xarc: atomically swappable, atomically reference-counted pointers.     *)
(*                                                                         *)
(* The model follows src/src/internal.rs (XarcCount, decrement,           *)
(* try_increment, unguarded_increment), src/src/pointer.rs (Xarc) and      *)
(* src/src/atomic.rs (AtomicXarc).  Every atomic memory access of the code *)
(* is one step; a thread's position inside a call is pc[t] and the call's  *)
(* locals are fr[t].  crossbeam_epoch is modelled by its contract: a      *)
(* closure deferred under a guard runs only after every guard that was    *)
(* pinned when it was deferred has been dropped.                           *)
(***************************************************************************)
EXTENDS Integers, FiniteSets, Sequences, TLC

\* ------------------------------------------------------------------ bounds
NThreads == 2
NBlocks == 2
NHandles == 3
MaxOps == 4

Threads == 1..NThreads
Blocks == 1..NBlocks
Vals == {41, 42}

\* pointer.rs:72, ptr::null_mut().
Null == 0
\* Nothing there: the () of try_load's Err(()), a local not set yet, the value
\* of a block that is not allocated.
Absent == -1
Ptrs == Blocks \cup {Null}

VARIABLES
  count,      \* XarcData.count of every block address
  mem,        \* "unalloc" (never allocated, or physically freed), "live", "retired"
  val,        \* XarcData.value of every block
  pinnedAt,   \* retired block -> guards pinned at its retirement and not yet dropped
  slot,       \* AtomicXarc.ptr
  slotLive,   \* the AtomicXarc exists (constructed and not dropped)
  h,          \* h[t][p]: how many Xarc variables of thread t have ptr = p
  pc,         \* position of thread t inside its current call
  fr,         \* the current call's locals and its history variables
  pin,        \* number of live guards of thread t (crossbeam pin() nests)
  panicked,   \* a panic!() of internal.rs was executed
  ub,         \* a freed block's count was read or written
  installed,  \* history: value stored by the last successful swap/CAS or constructor
  doubleFree, \* history: a second 1->0 transition was observed for one allocation
  nops,       \* constructors, clones and slot calls started so far (drop and reset
              \* are bounded by the handles there are)
  cells,      \* examples/: the pointer words of the Stack or Queue and of its nodes
  loc,        \* examples/: the call of push, try_pop or is_empty a thread is in
  hist        \* examples/: history of the calls made on the Stack or Queue

\* The variables of the examples; the calls on a lone AtomicXarc leave them alone.
kvars == <<cells, loc, hist>>

vars == <<count, mem, val, pinnedAt, slot, slotLive, h, pc, fr, pin, panicked, ub,
          installed, doubleFree, nops, cells, loc, hist>>

ZeroDelta == [b \in Blocks |-> 0]

\* The locals of a call (kind .. ret) and its history (seen .. dangling):
\* seen, the values the slot held during the call; delta, the call's own net
\* change of every count; atCas, the slot's value at the call's swap or CAS,
\* and after, the value that step left in the slot; prevInst, `installed` at
\* that step; decOld, the count the rollback found; retried, load's loop took
\* another turn; dangling, the block at ptr was freed while ptr was held;
\* taken, the value try_take moved out; tiRes and tiVal, what the call's last
\* XarcCount::try_increment returned, Ok or Err and the count it carries.
\* cell is, in the examples, the AtomicXarc the call is made on.
NoFrame == [kind |-> "none", phase |-> "top", cur |-> Null, new |-> Null,
            ptr |-> Null, c |-> 0, ok |-> FALSE, ret |-> Absent,
            seen |-> {}, delta |-> ZeroDelta, atCas |-> Absent, after |-> Absent,
            prevInst |-> Absent, decOld |-> 0, retried |-> FALSE, dangling |-> FALSE,
            taken |-> Absent, tiRes |-> "none", tiVal |-> 0,
            cell |-> <<0, "head">>]

\* ------------------------------------------------------------ XarcCount
\* Variants: the loop also runs on a count of 0; a count of 1 is refused as well.
TryIncrementAllowed_FromZero(c) == c >= 0
TryIncrementAllowed_AboveOne(c) == c > 1

\* internal.rs:21, the loop condition of XarcCount::try_increment.
TryIncrementAllowed(c) == c > 0

\* Variant: fetch_sub's result taken for the value after the subtraction.
IsLastReference_PostValue(old) == old = 0

\* Variant: the compare-exchange stores the count it read.
TryIncrementNew_Same(c) == c

\* internal.rs:22, `compare_exchange_weak(count, count + 1, ..)`: the new count.
TryIncrementNew(c) == c + 1

\* Variant: Ok carries the count after the increment.
TryIncrementResult_New(c) == c + 1

\* internal.rs:22-23, `Ok(c) => return Ok(c)`: c is what compare_exchange_weak
\* gives on success, the count it replaced.
TryIncrementResult(c) == c

\* internal.rs:51, `(*ptr).count.decrement() == 1`: the 1->0 transition.
IsLastReference(old) == old = 1

\* Variant: the increment from 1 is taken for one from 0.
IncrementPanics_BelowTwo(old) == old < 2

\* internal.rs:81, `(*ptr).count.unsafe_increment() < 1`.
IncrementPanics(old) == old < 1

\* Variants: blocks compared by their values; a null `current` matching anything.
CasMatches_ByValue(slotv, cur) ==
  IF slotv = Null \/ cur = Null THEN slotv = cur ELSE val[slotv] = val[cur]
CasMatches_NullAny(slotv, cur) == slotv = cur \/ cur = Null

\* atomic.rs:71, AtomicPtr::compare_exchange compares addresses.
CasMatches(slotv, cur) == slotv = cur

\* Variant: the failure reports the expected value instead of the one read.
CasWitness_Expected(slotv, cur) == cur

\* atomic.rs:75, Err(ptr): a failed CAS gives the value it read in the slot.
CasWitness(slotv, cur) == slotv

PinnedNow == {u \in Threads : pin[u] > 0}

\* Variant: the block is freed without waiting for the guards.
CanReclaim_Unguarded(b) == mem[b] = "retired"

\* crossbeam_epoch::Guard::defer_unchecked (internal.rs:53): the deferred
\* drop(boxed) may run once every guard pinned at the defer has been dropped.
CanReclaim(b) == mem[b] = "retired" /\ pinnedAt[b] = {}

\* A block that is not allocated: touching its count is a use after free.
Freed(p) == p # Null /\ mem[p] = "unalloc"

\* ------------------------------------------------- internal.rs helpers
\* Variant: the decrement is left out.
Decrement_Skipped(ptr, t, stay) ==
  [count |-> count, mem |-> mem, pinnedAt |-> pinnedAt, doubleFree |-> doubleFree,
   ub |-> ub]

\* internal.rs:49-58 decrement(ptr, guard) by thread t; `stay` says whether t
\* still holds a guard after the statement.  Gives the shared state after it.
Decrement(ptr, t, stay) ==
  IF ptr = Null
  THEN [count |-> count, mem |-> mem, pinnedAt |-> pinnedAt,
        doubleFree |-> doubleFree, ub |-> ub]
  ELSE LET old == count[ptr]
           last == IsLastReference(old) IN
       [count |-> [count EXCEPT ![ptr] = old - 1],
        mem |-> IF last /\ mem[ptr] = "live"
                THEN [mem EXCEPT ![ptr] = "retired"] ELSE mem,
        pinnedAt |-> IF last /\ mem[ptr] = "live"
                     THEN [pinnedAt EXCEPT ![ptr] =
                             (PinnedNow \ {t}) \cup (IF stay THEN {t} ELSE {})]
                     ELSE pinnedAt,
        doubleFree |-> doubleFree \/ (last /\ mem[ptr] # "live"),
        ub |-> ub \/ Freed(ptr)]

\* Variants: the increment is left out; the increment is made twice.
IncCount_Skipped(ptr) == count
IncCount_Twice(ptr) == IF ptr = Null THEN count ELSE [count EXCEPT ![ptr] = @ + 2]

\* Variant: the null test of internal.rs:81 left out, null taken for a count of 0.
IncPanic_NullToo(ptr) == IF ptr = Null THEN TRUE ELSE IncrementPanics(count[ptr])

\* internal.rs:79-85 unguarded_increment(ptr): fetch_add, then the panic test.
IncCount(ptr) == IF ptr = Null THEN count ELSE [count EXCEPT ![ptr] = @ + 1]
IncPanic(ptr) == ptr # Null /\ IncrementPanics(count[ptr])

\* Variant: the test of maybe_deref inverted to "never a value".
MaybeDeref_None(p) == Absent

\* Xarc::maybe_deref, pointer.rs:104-113: the value of the block, None on null.
MaybeDeref(p) == IF p # Null THEN val[p] ELSE Absent

\* Xarc::is_null, pointer.rs:97-99.
IsNull(p) == p = Null

\* Variant: the values are compared, as Arc's PartialEq does.
XarcEq_ByValue(p, q) == MaybeDeref(p) = MaybeDeref(q)

\* PartialEq for Xarc, pointer.rs:152-157: `self.ptr == other.ptr`.
XarcEq(p, q) == p = q

\* The Xarc variables of a thread: at most NHandles at a time.
RECURSIVE SumTo(_, _)
SumTo(f, n) == IF n < 0 THEN 0 ELSE f[n] + SumTo(f, n - 1)
Held(t) == SumTo(h[t], NBlocks)
HasFreeHandle(t) == Held(t) < NHandles
Holds(t, p) == h[t][p] > 0
Give(hh, t, p) == [hh EXCEPT ![t][p] = @ + 1]
Take(hh, t, p) == [hh EXCEPT ![t][p] = @ - 1]
Idle(t) == pc[t] = "idle"
CanStart(t) == Idle(t) /\ nops < MaxOps /\ ~panicked

\* Box::new: any address that is not in use, a freed one included.
FreeBlocks == {b \in Blocks : mem[b] = "unalloc"}

CxKinds == {"compare_exchange", "compare_exchange_weak", "compare_and_swap"}

\* history: the values the slot holds while a compare_exchange call is running.
NoteSlot(f, v) ==
  [u \in Threads |->
     IF pc[u] \notin {"idle", "ret"} /\ f[u].kind \in CxKinds
     THEN [f[u] EXCEPT !.seen = @ \cup {v}] ELSE f[u]]

\* history: the change of the counts made by a step of thread t.
Acct(f, t, cnt) == [f EXCEPT ![t].delta = [b \in Blocks |-> @[b] + cnt[b] - count[b]]]

\* The positions at which a call holds in ptr an address it has yet to use.
RawHeld == {"ti_load", "ti_cas", "cx_dec", "ior"}

TypeOK ==
  /\ count \in [Blocks -> Int]
  /\ mem \in [Blocks -> {"unalloc", "live", "retired"}]
  /\ slot \in Ptrs
  /\ h \in [Threads -> [Ptrs -> 0..NHandles]]
  /\ pin \in [Threads -> 0..3]

Init ==
  /\ val = [b \in Blocks |-> IF b = 1 THEN 42 ELSE Absent]
  /\ count = [b \in Blocks |-> IF b = 1 THEN 1 ELSE 0]
  /\ mem = [b \in Blocks |-> IF b = 1 THEN "live" ELSE "unalloc"]
  /\ pinnedAt = [b \in Blocks |-> {}]
  /\ slot = 1
  /\ slotLive = TRUE
  /\ h = [t \in Threads |-> [p \in Ptrs |-> 0]]
  /\ pc = [t \in Threads |-> "idle"]
  /\ fr = [t \in Threads |-> NoFrame]
  /\ pin = [t \in Threads |-> 0]
  /\ panicked = FALSE
  /\ ub = FALSE
  /\ installed = 1
  /\ doubleFree = FALSE
  /\ nops = 0
  /\ cells = <<>> /\ loc = <<>> /\ hist = <<>>

\* ------------------------------------------------------------ pointer.rs
\* Xarc::new(value), pointer.rs:62-66 with XarcData::new, internal.rs:41-46.
XarcNew(t, v) ==
  /\ CanStart(t) /\ HasFreeHandle(t)
  /\ \E b \in FreeBlocks :
       /\ mem' = [mem EXCEPT ![b] = "live"]
       /\ count' = [count EXCEPT ![b] = 1]
       /\ val' = [val EXCEPT ![b] = v]
       /\ h' = Give(h, t, b)
  /\ nops' = nops + 1
  /\ UNCHANGED <<pinnedAt, slot, slotLive, pc, fr, pin, panicked, ub, installed, doubleFree>>
  /\ UNCHANGED kvars

\* Xarc::null(), pointer.rs:70-74.
XarcNull(t) ==
  /\ CanStart(t) /\ HasFreeHandle(t)
  /\ h' = Give(h, t, Null)
  /\ nops' = nops + 1
  /\ UNCHANGED <<count, mem, val, pinnedAt, slot, slotLive, pc, fr, pin, panicked, ub,
                 installed, doubleFree>>
  /\ UNCHANGED kvars

\* Clone for Xarc, pointer.rs:133-138.
Clone(t, p) ==
  /\ CanStart(t) /\ HasFreeHandle(t)
  /\ Holds(t, p)
  /\ count' = IncCount(p)
  /\ ub' = (ub \/ Freed(p))
  /\ panicked' = (panicked \/ IncPanic(p))
  /\ h' = IF IncPanic(p) THEN h ELSE Give(h, t, p)
  /\ nops' = nops + 1
  /\ UNCHANGED <<mem, val, pinnedAt, slot, slotLive, pc, fr, pin, installed, doubleFree>>
  /\ UNCHANGED kvars

\* Drop for Xarc, pointer.rs:140-144: the guard is a temporary of the statement.
Drop(t, p) ==
  /\ Idle(t) /\ ~panicked
  /\ Holds(t, p)
  /\ LET d == Decrement(p, t, FALSE) IN
       /\ count' = d.count /\ mem' = d.mem /\ pinnedAt' = d.pinnedAt
       /\ doubleFree' = d.doubleFree /\ ub' = d.ub
  /\ h' = Take(h, t, p)
  /\ UNCHANGED <<val, slot, slotLive, pc, fr, pin, panicked, installed, nops>>
  /\ UNCHANGED kvars

\* Xarc::reset, pointer.rs:89-93.
Reset(t, p) ==
  /\ Idle(t) /\ ~panicked
  /\ Holds(t, p)
  /\ LET d == Decrement(p, t, FALSE) IN
       /\ count' = d.count /\ mem' = d.mem /\ pinnedAt' = d.pinnedAt
       /\ doubleFree' = d.doubleFree /\ ub' = d.ub
  /\ h' = Give(Take(h, t, p), t, Null)
  /\ UNCHANGED <<val, slot, slotLive, pc, fr, pin, panicked, installed, nops>>
  /\ UNCHANGED kvars

\* The deferred closure of internal.rs:53-55, drop(boxed): the block is freed.
Reclaim(b) ==
  /\ CanReclaim(b)
  /\ mem' = [mem EXCEPT ![b] = "unalloc"]
  /\ val' = [val EXCEPT ![b] = Absent]
  /\ count' = [count EXCEPT ![b] = 0]
  /\ fr' = [u \in Threads |->
             IF pc[u] \in RawHeld /\ fr[u].ptr = b
             THEN [fr[u] EXCEPT !.dangling = TRUE] ELSE fr[u]]
  /\ UNCHANGED <<pinnedAt, slot, slotLive, h, pc, pin, panicked, ub, installed,
                 doubleFree, nops>>
  /\ UNCHANGED kvars

\* ------------------------------------------------------------- atomic.rs
\* No call on the slot is running: `&mut self` / ownership of the AtomicXarc.
SlotQuiet == \A u \in Threads : Idle(u)

\* AtomicXarc::new(value), atomic.rs:34-38.
SlotNew(v) ==
  /\ ~slotLive /\ SlotQuiet /\ nops < MaxOps /\ ~panicked
  /\ \E b \in FreeBlocks :
       /\ mem' = [mem EXCEPT ![b] = "live"]
       /\ count' = [count EXCEPT ![b] = 1]
       /\ val' = [val EXCEPT ![b] = v]
       /\ slot' = b
       /\ installed' = b
  /\ slotLive' = TRUE
  /\ nops' = nops + 1
  /\ UNCHANGED <<pinnedAt, h, pc, fr, pin, panicked, ub, doubleFree>>
  /\ UNCHANGED kvars

\* AtomicXarc::null(), atomic.rs:42-46.
SlotNull ==
  /\ ~slotLive /\ SlotQuiet /\ nops < MaxOps /\ ~panicked
  /\ slot' = Null
  /\ installed' = Null
  /\ slotLive' = TRUE
  /\ nops' = nops + 1
  /\ UNCHANGED <<count, mem, val, pinnedAt, h, pc, fr, pin, panicked, ub, doubleFree>>
  /\ UNCHANGED kvars

\* From<&Xarc> for AtomicXarc, atomic.rs:150-156.
SlotFrom(t, p) ==
  /\ ~slotLive /\ SlotQuiet /\ nops < MaxOps /\ ~panicked
  /\ Holds(t, p)
  /\ count' = IncCount(p)
  /\ ub' = (ub \/ Freed(p))
  /\ panicked' = (panicked \/ IncPanic(p))
  /\ slotLive' = ~IncPanic(p)
  /\ slot' = IF IncPanic(p) THEN slot ELSE p
  /\ installed' = IF IncPanic(p) THEN installed ELSE p
  /\ nops' = nops + 1
  /\ UNCHANGED <<mem, val, pinnedAt, h, pc, fr, pin, doubleFree>>
  /\ UNCHANGED kvars

\* Drop for AtomicXarc, atomic.rs:143-148.
SlotDrop(t) ==
  /\ slotLive /\ SlotQuiet /\ nops < MaxOps /\ ~panicked
  /\ LET d == Decrement(slot, t, FALSE) IN
       /\ count' = d.count /\ mem' = d.mem /\ pinnedAt' = d.pinnedAt
       /\ doubleFree' = d.doubleFree /\ ub' = d.ub
  /\ slot' = Null
  /\ installed' = Null
  /\ slotLive' = FALSE
  /\ nops' = nops + 1
  /\ UNCHANGED <<val, h, pc, fr, pin, panicked>>
  /\ UNCHANGED kvars

CanCall(t) == CanStart(t) /\ slotLive /\ HasFreeHandle(t)

Frame(kind, cur, new) ==
  [NoFrame EXCEPT !.kind = kind, !.cur = cur, !.new = new,
                  !.seen = IF kind \in CxKinds THEN {slot} ELSE {}]

\* AtomicXarc::load entered, atomic.rs:102-104: `let guard = pin();`.
CallLoad(t) ==
  /\ CanCall(t)
  /\ fr' = [fr EXCEPT ![t] = Frame("load", Null, Null)]
  /\ pc' = [pc EXCEPT ![t] = "ld_read"]
  /\ pin' = [pin EXCEPT ![t] = 1]
  /\ nops' = nops + 1
  /\ UNCHANGED <<count, mem, val, pinnedAt, slot, slotLive, h, panicked, ub, installed,
                 doubleFree>>
  /\ UNCHANGED kvars

\* AtomicXarc::try_load entered, atomic.rs:118-119.
CallTryLoad(t) ==
  /\ CanCall(t)
  /\ fr' = [fr EXCEPT ![t] = Frame("try_load", Null, Null)]
  /\ pc' = [pc EXCEPT ![t] = "ld_read"]
  /\ pin' = [pin EXCEPT ![t] = 1]
  /\ nops' = nops + 1
  /\ UNCHANGED <<count, mem, val, pinnedAt, slot, slotLive, h, panicked, ub, installed,
                 doubleFree>>
  /\ UNCHANGED kvars

\* AtomicXarc::swap entered, atomic.rs:126 (it takes no guard).
CallSwap(t, new) ==
  /\ CanCall(t)
  /\ Holds(t, new)
  /\ fr' = [fr EXCEPT ![t] = Frame("swap", Null, new)]
  /\ pc' = [pc EXCEPT ![t] = "sw_inc"]
  /\ nops' = nops + 1
  /\ UNCHANGED <<count, mem, val, pinnedAt, slot, slotLive, h, pin, panicked, ub,
                 installed, doubleFree>>
  /\ UNCHANGED kvars

\* compare_exchange (atomic.rs:68-69), compare_exchange_weak (atomic.rs:85-86) or
\* compare_and_swap (atomic.rs:59-60, which calls compare_exchange) entered:
\* `let guard = pin();`.
CallCompareExchange(t, current, new, kind) ==
  /\ CanCall(t)
  /\ Holds(t, current) /\ Holds(t, new)
  /\ fr' = [fr EXCEPT ![t] = Frame(kind, current, new)]
  /\ pc' = [pc EXCEPT ![t] = "cx_inc"]
  /\ pin' = [pin EXCEPT ![t] = 1]
  /\ nops' = nops + 1
  /\ UNCHANGED <<count, mem, val, pinnedAt, slot, slotLive, h, panicked, ub, installed,
                 doubleFree>>
  /\ UNCHANGED kvars

\* `self.ptr.load(order)`, atomic.rs:106 and atomic.rs:120, and
\* internal::try_increment on a null pointer (internal.rs:70): Ok at once.
LoadRead(t) ==
  /\ pc[t] = "ld_read"
  /\ IF slot = Null
     THEN /\ fr' = [fr EXCEPT ![t].ptr = Null, ![t].ret = Null,
                              ![t].ok = (fr[t].kind \in {"load", "try_load"})]
          /\ pc' = [pc EXCEPT ![t] = "ret"]
     ELSE /\ fr' = [fr EXCEPT ![t].ptr = slot]
          /\ pc' = [pc EXCEPT ![t] = "ti_load"]
  /\ UNCHANGED <<count, mem, val, pinnedAt, slot, slotLive, h, pin, panicked, ub,
                 installed, doubleFree, nops>>
  /\ UNCHANGED kvars

\* XarcCount::try_increment, internal.rs:20: `self.count.load(Relaxed)`.
\* Reading a freed block gives any value.
TiLoad(t) ==
  /\ pc[t] = "ti_load"
  /\ \E c \in (IF Freed(fr[t].ptr) THEN 0..1 ELSE {count[fr[t].ptr]}) :
       fr' = [fr EXCEPT ![t].c = c]
  /\ ub' = (ub \/ Freed(fr[t].ptr) \/ fr[t].dangling)
  /\ pc' = [pc EXCEPT ![t] = "ti_cas"]
  /\ UNCHANGED <<count, mem, val, pinnedAt, slot, slotLive, h, pin, panicked,
                 installed, doubleFree, nops>>
  /\ UNCHANGED kvars

\* XarcCount::try_increment, internal.rs:21-27, one turn of the loop, and what
\* the caller does with the result: Xarc::try_from (pointer.rs:83-86) in load
\* (atomic.rs:106-111) or try_load (atomic.rs:120), or increment_or_reload
\* (atomic.rs:134-139).  A spurious failure of compare_exchange_weak on the
\* count changes nothing (Err(c) gives back the same c) and is a stuttering step.
TiCas(t) ==
  /\ pc[t] = "ti_cas"
  /\ LET f == fr[t]
         p == f.ptr
         top == f.phase = "top" IN
     IF TryIncrementAllowed(f.c)
     THEN IF count[p] = f.c
          THEN \* Ok(c): the handle is made by Xarc::init(ptr)
               /\ count' = [count EXCEPT ![p] = TryIncrementNew(f.c)]
               /\ fr' = [Acct(fr, t, [count EXCEPT ![p] = TryIncrementNew(f.c)]) EXCEPT
                           ![t].ret = p, ![t].ok = top, ![t].tiRes = "ok",
                           ![t].tiVal = TryIncrementResult(f.c)]
               /\ pc' = [pc EXCEPT ![t] = "ret"]
               /\ pin' = pin
          ELSE \* Err(c): count = c
               /\ fr' = [fr EXCEPT ![t].c = count[p]]
               /\ UNCHANGED <<count, pc, pin>>
     ELSE \* Err(count) of try_increment
          /\ count' = count
          /\ IF top /\ f.kind = "try_load"
             THEN /\ fr' = [fr EXCEPT ![t].ok = FALSE, ![t].ret = Absent,
                             ![t].tiRes = "err", ![t].tiVal = f.c]
                  /\ pc' = [pc EXCEPT ![t] = "ret"]
                  /\ pin' = pin
             ELSE IF f.phase = "ior"
             THEN \* atomic.rs:138, self.load(order): a third guard
                  /\ fr' = [fr EXCEPT ![t].phase = "reload",
                             ![t].tiRes = "err", ![t].tiVal = f.c]
                  /\ pc' = [pc EXCEPT ![t] = "ld_read"]
                  /\ pin' = [pin EXCEPT ![t] = @ + 1]
             ELSE \* atomic.rs:110, backoff.spin() and the next turn of load's loop
                  /\ fr' = [fr EXCEPT ![t].retried = TRUE,
                             ![t].tiRes = "err", ![t].tiVal = f.c]
                  /\ pc' = [pc EXCEPT ![t] = "ld_read"]
                  /\ pin' = pin
  /\ ub' = (ub \/ Freed(fr[t].ptr) \/ fr[t].dangling)
  /\ UNCHANGED <<mem, val, pinnedAt, slot, slotLive, h, panicked, installed,
                 doubleFree, nops>>
  /\ UNCHANGED kvars

\* swap, atomic.rs:127: unguarded_increment(new.ptr).
SwInc(t) ==
  /\ pc[t] = "sw_inc"
  /\ count' = IncCount(fr[t].new)
  /\ ub' = (ub \/ Freed(fr[t].new))
  /\ panicked' = (panicked \/ IncPanic(fr[t].new))
  /\ fr' = Acct(fr, t, IncCount(fr[t].new))
  /\ pc' = [pc EXCEPT ![t] = IF IncPanic(fr[t].new) THEN "panic" ELSE "sw_swap"]
  /\ UNCHANGED <<mem, val, pinnedAt, slot, slotLive, h, pin, installed, doubleFree, nops>>
  /\ UNCHANGED kvars

\* swap, atomic.rs:128: Xarc::init(self.ptr.swap(new.ptr, order)).
SwSwap(t) ==
  /\ pc[t] = "sw_swap"
  /\ slot' = fr[t].new
  /\ installed' = fr[t].new
  /\ fr' = [NoteSlot(fr, fr[t].new) EXCEPT ![t].ret = slot, ![t].ok = TRUE,
                                           ![t].atCas = slot, ![t].after = fr[t].new,
                                           ![t].prevInst = installed]
  /\ pc' = [pc EXCEPT ![t] = "ret"]
  /\ UNCHANGED <<count, mem, val, pinnedAt, slotLive, h, pin, panicked, ub, doubleFree, nops>>
  /\ UNCHANGED kvars

\* compare_exchange(_weak), atomic.rs:70 / 87: unguarded_increment(new.ptr).
CxInc(t) ==
  /\ pc[t] = "cx_inc"
  /\ count' = IncCount(fr[t].new)
  /\ ub' = (ub \/ Freed(fr[t].new))
  /\ panicked' = (panicked \/ IncPanic(fr[t].new))
  /\ fr' = Acct(fr, t, IncCount(fr[t].new))
  /\ pc' = [pc EXCEPT ![t] = IF IncPanic(fr[t].new) THEN "panic" ELSE "cx_cas"]
  /\ UNCHANGED <<mem, val, pinnedAt, slot, slotLive, h, pin, installed, doubleFree, nops>>
  /\ UNCHANGED kvars

\* The CAS on the slot succeeds, atomic.rs:71-74 / 88-91: Ok(Xarc::init(ptr)).
CxCasOk(t) ==
  /\ pc[t] = "cx_cas"
  /\ CasMatches(slot, fr[t].cur)
  /\ slot' = fr[t].new
  /\ installed' = fr[t].new
  /\ fr' = [NoteSlot(fr, fr[t].new) EXCEPT ![t].ret = slot, ![t].ok = TRUE,
                                           ![t].atCas = slot, ![t].after = fr[t].new,
                                           ![t].prevInst = installed]
  /\ pc' = [pc EXCEPT ![t] = "ret"]
  /\ UNCHANGED <<count, mem, val, pinnedAt, slotLive, h, pin, panicked, ub, doubleFree, nops>>
  /\ UNCHANGED kvars

\* The CAS on the slot fails, atomic.rs:75 / 92: Err(ptr) with the value read.
\* compare_exchange_weak may fail although the slot holds `current`.
CxCasErr(t) ==
  /\ pc[t] = "cx_cas"
  /\ ~CasMatches(slot, fr[t].cur) \/ fr[t].kind = "compare_exchange_weak"
  /\ fr' = [fr EXCEPT ![t].ptr = CasWitness(slot, fr[t].cur), ![t].atCas = slot]
  /\ pc' = [pc EXCEPT ![t] = "cx_dec"]
  /\ UNCHANGED <<count, mem, val, pinnedAt, slot, slotLive, h, pin, panicked, ub,
                 installed, doubleFree, nops>>
  /\ UNCHANGED kvars

\* The rollback, atomic.rs:76 / 93: decrement(new.ptr, &guard).
CxDec(t) ==
  /\ pc[t] = "cx_dec"
  /\ LET d == Decrement(fr[t].new, t, TRUE) IN
       /\ count' = d.count /\ mem' = d.mem /\ pinnedAt' = d.pinnedAt
       /\ doubleFree' = d.doubleFree /\ ub' = d.ub
  /\ fr' = [Acct(fr, t, Decrement(fr[t].new, t, TRUE).count) EXCEPT
              ![t].decOld = IF fr[t].new = Null THEN 0 ELSE count[fr[t].new]]
  /\ pc' = [pc EXCEPT ![t] = "ior"]
  /\ UNCHANGED <<val, slot, slotLive, h, pin, panicked, installed, nops>>
  /\ UNCHANGED kvars

\* increment_or_reload entered, atomic.rs:133-135: a second guard, and
\* internal::try_increment on a null pointer (internal.rs:70) is Ok at once.
Ior(t) ==
  /\ pc[t] = "ior"
  /\ pin' = [pin EXCEPT ![t] = @ + 1]
  /\ IF fr[t].ptr = Null
     THEN /\ fr' = [fr EXCEPT ![t].phase = "ior", ![t].ret = Null, ![t].ok = FALSE]
          /\ pc' = [pc EXCEPT ![t] = "ret"]
     ELSE /\ fr' = [fr EXCEPT ![t].phase = "ior"]
          /\ pc' = [pc EXCEPT ![t] = "ti_load"]
  /\ UNCHANGED <<count, mem, val, pinnedAt, slot, slotLive, h, panicked, ub,
                 installed, doubleFree, nops>>
  /\ UNCHANGED kvars

\* The call returns: its guards are dropped and the caller keeps the handle
\* (try_load's Err(()) carries none).
Return(t) ==
  /\ pc[t] = "ret"
  /\ h' = IF fr[t].ret = Absent THEN h ELSE Give(h, t, fr[t].ret)
  /\ pin' = [pin EXCEPT ![t] = 0]
  /\ pinnedAt' = [b \in Blocks |-> pinnedAt[b] \ {t}]
  /\ fr' = [fr EXCEPT ![t] = NoFrame]
  /\ pc' = [pc EXCEPT ![t] = "idle"]
  /\ UNCHANGED <<count, mem, val, slot, slotLive, panicked, ub, installed, doubleFree, nops>>
  /\ UNCHANGED kvars

Next ==
  \/ \E t \in Threads, v \in Vals : XarcNew(t, v)
  \/ \E t \in Threads : XarcNull(t)
  \/ \E t \in Threads, p \in Ptrs : Clone(t, p)
  \/ \E t \in Threads, p \in Ptrs : Drop(t, p)
  \/ \E t \in Threads, p \in Ptrs : Reset(t, p)
  \/ \E v \in Vals : SlotNew(v)
  \/ SlotNull
  \/ \E t \in Threads, p \in Ptrs : SlotFrom(t, p)
  \/ \E t \in Threads : SlotDrop(t)
  \/ \E t \in Threads : CallLoad(t)
  \/ \E t \in Threads : CallTryLoad(t)
  \/ \E t \in Threads, p \in Ptrs : CallSwap(t, p)
  \/ \E t \in Threads, p \in Ptrs, q \in Ptrs, k \in CxKinds : CallCompareExchange(t, p, q, k)
  \/ \E t \in Threads : LoadRead(t)
  \/ \E t \in Threads : TiLoad(t)
  \/ \E t \in Threads : TiCas(t)
  \/ \E t \in Threads : SwInc(t)
  \/ \E t \in Threads : SwSwap(t)
  \/ \E t \in Threads : CxInc(t)
  \/ \E t \in Threads : CxCasOk(t)
  \/ \E t \in Threads : CxCasErr(t)
  \/ \E t \in Threads : CxDec(t)
  \/ \E t \in Threads : Ior(t)
  \/ \E t \in Threads : Return(t)
  \/ \E b \in Blocks : Reclaim(b)

Spec == Init /\ [][Next]_vars

\* ------------------------------------------------------------- try_take
\* try_take is described by the specification (sections 4.2, 7 and 8) and has
\* no source in this version of the crate.  What mem::take leaves behind.
Sentinel == 0

\* Variant: any live count makes the handle eligible.
TryTakeEligible_Shared(p) == p # Null /\ count[p] >= 1

\* "if refcount==1 (no other owner ...)", and not on a null handle.
TryTakeEligible(p) == p # Null /\ count[p] = 1

\* try_take(self): the handle is moved into the call.  Eligible: the value is
\* moved out, the sentinel is left in the block and the handle, consumed, is
\* dropped (pointer.rs:140-144).  Otherwise the handle comes back as it was.
CallTryTake(t, p) ==
  /\ CanStart(t) /\ Holds(t, p)
  /\ LET d == Decrement(p, t, FALSE)
         f == [Frame("try_take", p, Null) EXCEPT
                 !.c = IF p = Null THEN 0 ELSE count[p]] IN
     IF TryTakeEligible(p)
     THEN /\ val' = [val EXCEPT ![p] = Sentinel]
          /\ count' = d.count /\ mem' = d.mem /\ pinnedAt' = d.pinnedAt
          /\ doubleFree' = d.doubleFree /\ ub' = d.ub
          /\ fr' = [fr EXCEPT ![t] = [f EXCEPT !.ok = TRUE, !.taken = val[p]]]
     ELSE /\ fr' = [fr EXCEPT ![t] = [f EXCEPT !.ok = FALSE, !.ret = p]]
          /\ UNCHANGED <<val, count, mem, pinnedAt, doubleFree, ub>>
  /\ h' = Take(h, t, p)
  /\ pc' = [pc EXCEPT ![t] = "ret"]
  /\ nops' = nops + 1
  /\ UNCHANGED <<slot, slotLive, pin, panicked, installed>>
  /\ UNCHANGED kvars

TakeNext == Next \/ \E t \in Threads, p \in Ptrs : CallTryTake(t, p)
TakeSpec == Init /\ [][TakeNext]_vars

\* -------------------------------- unguarded_increment / unguarded_decrement
\* The two functions applied to the counts of blocks that are allocated, by
\* threads of which a panic stops only the one that panics.  Each thread keeps
\* in its frame what its last call was given and found: ptr, and in c the
\* count before the update.  At most MaxCountOps calls are made.
MaxCountOps == 5

\* internal.rs:62, `(*ptr).count.decrement() == 1`.
DecrementPanics(old) == old = 1

\* XarcData::new, internal.rs:41-46: the count of a new block is 1
\* (internal.rs:11).
UnguardedInit ==
  /\ count = [b \in Blocks |-> 1]
  /\ mem = [b \in Blocks |-> "live"]
  /\ val = [b \in Blocks |-> 42]
  /\ pinnedAt = [b \in Blocks |-> {}]
  /\ slot = Null /\ slotLive = FALSE /\ installed = Null /\ nops = 0
  /\ h = [t \in Threads |-> [p \in Ptrs |-> 0]]
  /\ pc = [t \in Threads |-> "idle"]
  /\ fr = [t \in Threads |-> NoFrame]
  /\ pin = [t \in Threads |-> 0]
  /\ panicked = FALSE /\ ub = FALSE /\ doubleFree = FALSE
  /\ cells = <<>> /\ loc = <<>> /\ hist = <<>>

\* unguarded_increment(ptr), internal.rs:79-85.
UnguardedIncrement(t, p) ==
  /\ Idle(t) /\ nops < MaxCountOps
  /\ count' = IncCount(p)
  /\ panicked' = (panicked \/ IncPanic(p))
  /\ pc' = [pc EXCEPT ![t] = IF IncPanic(p) THEN "panic" ELSE "idle"]
  /\ fr' = [fr EXCEPT ![t] = [NoFrame EXCEPT !.kind = "unguarded_increment", !.ptr = p,
                                            !.c = IF p = Null THEN 0 ELSE count[p]]]
  /\ nops' = nops + 1
  /\ UNCHANGED <<mem, val, pinnedAt, slot, slotLive, h, pin, ub, installed, doubleFree>>
  /\ UNCHANGED kvars

\* unguarded_decrement(ptr), internal.rs:60-66, with XarcCount::decrement,
\* internal.rs:15-17.
UnguardedDecrement(t, p) ==
  /\ Idle(t) /\ nops < MaxCountOps
  /\ count' = IF p = Null THEN count ELSE [count EXCEPT ![p] = @ - 1]
  /\ LET aborts == p # Null /\ DecrementPanics(count[p]) IN
       /\ panicked' = (panicked \/ aborts)
       /\ pc' = [pc EXCEPT ![t] = IF aborts THEN "panic" ELSE "idle"]
  /\ fr' = [fr EXCEPT ![t] = [NoFrame EXCEPT !.kind = "unguarded_decrement", !.ptr = p,
                                            !.c = IF p = Null THEN 0 ELSE count[p]]]
  /\ nops' = nops + 1
  /\ UNCHANGED <<mem, val, pinnedAt, slot, slotLive, h, pin, ub, installed, doubleFree>>
  /\ UNCHANGED kvars

UnguardedNext ==
  \/ \E t \in Threads, p \in Ptrs : UnguardedIncrement(t, p)
  \/ \E t \in Threads, p \in Ptrs : UnguardedDecrement(t, p)

UnguardedSpec == UnguardedInit /\ [][UnguardedNext]_vars

\* ------------------------------------------------------ examples/: common
\* The AtomicXarc and Xarc fields of the examples: of the Stack or Queue (owner
\* 0) and of the node at block b.
HeadCell == <<0, "head">>
TailCell == <<0, "tail">>
NextOf(b) == <<b, "next">>
ValueOf(b) == <<b, "value">>
CellsOf(blocks) == ({0} \X {"head", "tail"}) \cup (blocks \X {"value", "next"})

\* The locals of a call of push, try_pop or is_empty: at, its position; n, the
\* calls the thread has made; v, the value pushed; the Xarc locals and
\* temporaries new (stack.rs `new`, queue.rs `new_tail` and `next`), cur
\* (`current`, `current_tail`, `current_head`), vh (`value`), nx (the
\* `current_tail_next` of try_update_tail's closure), vx and okh (what the
\* matched compare_exchange returned), tv (the handle mem::take goes through);
\* ctx and tut, the caller and the branch of try_update_tail; drops, the
\* handles that go out of scope next, and then, where the call goes on after
\* them; res and how, the result of try_pop or is_empty.
NoLoc == [op |-> "none", at |-> "idle", n |-> 0, v |-> Absent, new |-> Null,
          cur |-> Null, vh |-> Null, nx |-> Null, vx |-> Null, okh |-> Null,
          tv |-> Null, ctx |-> "", tut |-> "", drops |-> <<>>, then |-> "",
          res |-> Absent, how |-> ""]

KFrame(kind, cell, cur, new) ==
  [NoFrame EXCEPT !.kind = kind, !.cell = cell, !.cur = cur, !.new = new]

\* A field of a node whose block has been freed.
CellFreed(c) == c[1] # 0 /\ mem[c[1]] = "unalloc"

\* Box::new: a freed address, or the first address never used (the addresses
\* never used are interchangeable).
KAddrs == {b \in DOMAIN mem : mem[b] = "unalloc" /\ b <= hist.hw + 1}
KMax(a, b) == IF a > b THEN a ELSE b

\* Drop for Xarc (pointer.rs:140-144) of a local of thread t which still holds
\* the guard of its push or try_pop.
Released(ptr, t) ==
  LET d == Decrement(ptr, t, TRUE) IN
    /\ count' = d.count /\ mem' = d.mem /\ pinnedAt' = d.pinnedAt
    /\ doubleFree' = d.doubleFree /\ ub' = d.ub

\* The last local is dropped and then `_guard`: the thread is unpinned.
ReleasedUnpin(ptr, t) ==
  LET d == Decrement(ptr, t, FALSE) IN
    /\ count' = d.count /\ mem' = d.mem
    /\ pinnedAt' = [b \in DOMAIN mem |-> d.pinnedAt[b] \ {t}]
    /\ doubleFree' = d.doubleFree /\ ub' = d.ub
    /\ pin' = [pin EXCEPT ![t] = 0]

NoRelease == UNCHANGED <<count, mem, pinnedAt, doubleFree, ub>>

\* A call on an AtomicXarc is entered under the guard of push or try_pop:
\* load (atomic.rs:102-104) or compare_exchange(_weak) (atomic.rs:68-69, 85-86).
StartCall(t, kind, cell, cur, new) ==
  /\ fr' = [fr EXCEPT ![t] = KFrame(kind, cell, cur, new)]
  /\ pc' = [pc EXCEPT ![t] = IF kind = "load" THEN "ld_read" ELSE "cx_inc"]
  /\ pin' = [pin EXCEPT ![t] = 2]

\* The call has returned: its guards are dropped, that of push or try_pop stays.
EndCall(t) ==
  /\ fr' = [fr EXCEPT ![t] = NoFrame]
  /\ pc' = [pc EXCEPT ![t] = "idle"]
  /\ pin' = [pin EXCEPT ![t] = 1]

\* What the examples do not use: the lone slot and the threads' loose handles.
coreIdle == <<slot, slotLive, h, installed, nops, panicked>>

\* `self.ptr.load(order)`, atomic.rs:106, on the AtomicXarc of the call.
KLoadRead(t) ==
  /\ pc[t] = "ld_read"
  /\ LET p == cells[fr[t].cell] IN
     IF p = Null
     THEN /\ fr' = [fr EXCEPT ![t].ptr = Null, ![t].ret = Null,
                              ![t].ok = (fr[t].kind = "load")]
          /\ pc' = [pc EXCEPT ![t] = "ret"]
     ELSE /\ fr' = [fr EXCEPT ![t].ptr = p]
          /\ pc' = [pc EXCEPT ![t] = "ti_load"]
  /\ ub' = (ub \/ CellFreed(fr[t].cell))
  /\ UNCHANGED <<count, mem, val, pinnedAt, pin, doubleFree, cells, loc, hist>>
  /\ UNCHANGED coreIdle

\* The CAS succeeds, atomic.rs:71-74 / 88-91, on the AtomicXarc of the call.
KCxCasOk(t) ==
  /\ pc[t] = "cx_cas"
  /\ CasMatches(cells[fr[t].cell], fr[t].cur)
  /\ cells' = [cells EXCEPT ![fr[t].cell] = fr[t].new]
  /\ fr' = [fr EXCEPT ![t].ret = cells[fr[t].cell], ![t].ok = TRUE,
                      ![t].atCas = cells[fr[t].cell], ![t].after = fr[t].new]
  /\ pc' = [pc EXCEPT ![t] = "ret"]
  /\ ub' = (ub \/ CellFreed(fr[t].cell))
  /\ UNCHANGED <<count, mem, val, pinnedAt, pin, doubleFree, loc, hist>>
  /\ UNCHANGED coreIdle

\* The CAS fails, atomic.rs:75 / 92; compare_exchange_weak may fail spuriously.
KCxCasErr(t) ==
  /\ pc[t] = "cx_cas"
  /\ ~CasMatches(cells[fr[t].cell], fr[t].cur) \/ fr[t].kind = "compare_exchange_weak"
  /\ fr' = [fr EXCEPT ![t].ptr = CasWitness(cells[fr[t].cell], fr[t].cur),
                      ![t].atCas = cells[fr[t].cell]]
  /\ pc' = [pc EXCEPT ![t] = "cx_dec"]
  /\ ub' = (ub \/ CellFreed(fr[t].cell))
  /\ UNCHANGED <<count, mem, val, pinnedAt, pin, doubleFree, cells, loc, hist>>
  /\ UNCHANGED coreIdle

\* The deferred drop(boxed) of internal.rs:53-55 on a node: its fields are
\* dropped in the order of their declaration, value and then next (Drop for
\* AtomicXarc, atomic.rs:143-148; Drop for Xarc, pointer.rs:140-144).  It runs
\* on any thread; whichever it is, the guards then held are those of PinnedNow.
KReclaimField(b, f) ==
  /\ CanReclaim(b)
  /\ cells[<<b, f>>] # Null
  /\ f = "next" => cells[ValueOf(b)] = Null
  /\ LET d == Decrement(cells[<<b, f>>], 1, pin[1] > 0) IN
       /\ count' = d.count /\ mem' = d.mem /\ pinnedAt' = d.pinnedAt
       /\ doubleFree' = d.doubleFree /\ ub' = d.ub
  /\ cells' = [cells EXCEPT ![<<b, f>>] = Null]
  /\ UNCHANGED <<val, pc, fr, pin, loc, hist>>
  /\ UNCHANGED coreIdle

\* ... and then the block is freed.
KFree(b) ==
  /\ CanReclaim(b)
  /\ cells[ValueOf(b)] = Null /\ cells[NextOf(b)] = Null
  /\ mem' = [mem EXCEPT ![b] = "unalloc"]
  /\ val' = [val EXCEPT ![b] = Absent]
  /\ count' = [count EXCEPT ![b] = 0]
  /\ fr' = [u \in Threads |->
             IF pc[u] \in RawHeld /\ fr[u].ptr = b
             THEN [fr[u] EXCEPT !.dangling = TRUE] ELSE fr[u]]
  /\ UNCHANGED <<pinnedAt, pc, pin, ub, doubleFree, cells, loc, hist>>
  /\ UNCHANGED coreIdle

\* ------------------------------------------------- examples/stack.rs
\* Every thread makes at most MaxStackOps calls of push or try_pop; MaxPush
\* values are pushed in all, each one different.
MaxStackOps == 3
MaxPush == 2
PushValue(k) == 41 + k

\* Not known yet: is_empty has not been called.
Unknown == "unknown"

\* Stack::new(), stack.rs:34-38: the node is AtomicXarc::null().
StackInit ==
  /\ count = [b \in Blocks |-> 0]
  /\ mem = [b \in Blocks |-> "unalloc"]
  /\ val = [b \in Blocks |-> Absent]
  /\ pinnedAt = [b \in Blocks |-> {}]
  /\ slot = Null /\ slotLive = FALSE /\ installed = Null /\ nops = 0
  /\ h = [t \in Threads |-> [p \in Ptrs |-> 0]]
  /\ pc = [t \in Threads |-> "idle"]
  /\ fr = [t \in Threads |-> NoFrame]
  /\ pin = [t \in Threads |-> 0]
  /\ panicked = FALSE /\ ub = FALSE /\ doubleFree = FALSE
  /\ cells = [c \in CellsOf(Blocks) |-> Null]
  /\ loc = [t \in Threads |-> NoLoc]
  /\ hist = [hw |-> 0, pushes |-> 0, pushed |-> {}, popped |-> {}, dup |-> FALSE,
             badNone |-> FALSE, empty |-> Unknown]

MayCall(t) ==
  /\ loc[t].op = "none" /\ loc[t].n < MaxStackOps
  /\ hist.empty = Unknown /\ \A u \in Threads : loc[u].op # "is_empty"
CallDone(t) == [loc EXCEPT ![t] = [NoLoc EXCEPT !.n = loc[t].n + 1]]
At(t, op, at) == loc[t].op = op /\ loc[t].at = at

\* push, stack.rs:41-43: `_guard = pin()` and self.node.load(Relaxed).
SPushCall(t) ==
  /\ MayCall(t) /\ hist.pushes < MaxPush
  /\ StartCall(t, "load", HeadCell, Null, Null)
  /\ loc' = [loc EXCEPT ![t].op = "push", ![t].at = "load",
                        ![t].v = PushValue(hist.pushes)]
  /\ hist' = [hist EXCEPT !.pushes = @ + 1]
  /\ NoRelease /\ UNCHANGED <<val, cells>> /\ UNCHANGED coreIdle

\* push, stack.rs:43-45: Xarc::new(Node::new(value, <the handle loaded>)) and
\* the first compare_exchange_weak(&new.next, &new) is entered.
SPushNew(t) ==
  /\ At(t, "push", "load") /\ pc[t] = "ret"
  /\ \E b \in KAddrs :
       /\ mem' = [mem EXCEPT ![b] = "live"]
       /\ count' = [count EXCEPT ![b] = 1]
       /\ val' = [val EXCEPT ![b] = loc[t].v]
       /\ cells' = [cells EXCEPT ![NextOf(b)] = fr[t].ret]
       /\ loc' = [loc EXCEPT ![t].new = b, ![t].at = "cas"]
       /\ hist' = [hist EXCEPT !.hw = KMax(@, b)]
       /\ StartCall(t, "compare_exchange_weak", HeadCell, fr[t].ret, b)
  /\ UNCHANGED <<pinnedAt, doubleFree, ub>> /\ UNCHANGED coreIdle

\* push, stack.rs:46: Ok(_previous) => return; `_previous` is dropped first.
SPushOk(t) ==
  /\ At(t, "push", "cas") /\ pc[t] = "ret" /\ fr[t].ok
  /\ Released(fr[t].ret, t)
  /\ EndCall(t)
  /\ loc' = [loc EXCEPT ![t].at = "done"]
  /\ UNCHANGED <<val, cells, hist>> /\ UNCHANGED coreIdle

\* push returns: `new` is dropped, then `_guard`.
SPushDone(t) ==
  /\ At(t, "push", "done")
  /\ ReleasedUnpin(loc[t].new, t)
  /\ loc' = CallDone(t)
  /\ hist' = [hist EXCEPT !.pushed = @ \cup {loc[t].v}]
  /\ UNCHANGED <<val, cells, pc, fr>> /\ UNCHANGED coreIdle

\* push, stack.rs:47-52: Err(current) => replace_next(current), which drops
\* the handle new.next held (stack.rs:24-26), and the next turn of the loop.
SPushErr(t) ==
  /\ At(t, "push", "cas") /\ pc[t] = "ret" /\ ~fr[t].ok
  /\ Released(cells[NextOf(loc[t].new)], t)
  /\ cells' = [cells EXCEPT ![NextOf(loc[t].new)] = fr[t].ret]
  /\ StartCall(t, "compare_exchange_weak", HeadCell, fr[t].ret, loc[t].new)
  /\ UNCHANGED <<val, loc, hist>> /\ UNCHANGED coreIdle

\* try_pop, stack.rs:59-61: `_guard = pin()` and self.node.load(Relaxed).
SPopCall(t) ==
  /\ MayCall(t)
  /\ StartCall(t, "load", HeadCell, Null, Null)
  /\ loc' = [loc EXCEPT ![t].op = "pop", ![t].at = "load"]
  /\ NoRelease /\ UNCHANGED <<val, cells, hist>> /\ UNCHANGED coreIdle

\* try_pop, stack.rs:62-66, a turn of the loop with `current` just set to p:
\* return None on null, else compare_exchange_weak(&current, &current.next).
PopTurn(t, p) ==
  IF IsNull(p)
  THEN /\ fr' = [fr EXCEPT ![t] = NoFrame]
       /\ pc' = [pc EXCEPT ![t] = "idle"]
       /\ loc' = [loc EXCEPT ![t].cur = p, ![t].at = "none"]
  ELSE /\ StartCall(t, "compare_exchange_weak", HeadCell, p, cells[NextOf(p)])
       /\ loc' = [loc EXCEPT ![t].cur = p, ![t].at = "cas"]

\* try_pop, stack.rs:61: `current` is the handle loaded.
SPopLoaded(t) ==
  /\ At(t, "pop", "load") /\ pc[t] = "ret"
  /\ PopTurn(t, fr[t].ret)
  /\ pin' = [pin EXCEPT ![t] = IF IsNull(fr[t].ret) THEN 1 ELSE 2]
  /\ NoRelease /\ UNCHANGED <<val, cells, hist>> /\ UNCHANGED coreIdle

\* try_pop, stack.rs:63-65: return None; `current`, null, and `_guard` are dropped.
SPopNone(t) ==
  /\ At(t, "pop", "none")
  /\ ReleasedUnpin(loc[t].cur, t)
  /\ loc' = CallDone(t)
  /\ UNCHANGED <<val, cells, hist, pc, fr>> /\ UNCHANGED coreIdle

\* try_pop, stack.rs:68-71: Err(pointer) => current = pointer, which drops the
\* handle `current` held, and the next turn of the loop.
SPopErr(t) ==
  /\ At(t, "pop", "cas") /\ pc[t] = "ret" /\ ~fr[t].ok
  /\ Released(loc[t].cur, t)
  /\ PopTurn(t, fr[t].ret)
  /\ pin' = [pin EXCEPT ![t] = IF IsNull(fr[t].ret) THEN 1 ELSE 2]
  /\ UNCHANGED <<val, cells, hist>> /\ UNCHANGED coreIdle

\* try_pop, stack.rs:67: Ok(_) => break; the handle returned is dropped.
SPopOk(t) ==
  /\ At(t, "pop", "cas") /\ pc[t] = "ret" /\ fr[t].ok
  /\ Released(fr[t].ret, t)
  /\ EndCall(t)
  /\ loc' = [loc EXCEPT ![t].at = "take"]
  /\ UNCHANGED <<val, cells, hist>> /\ UNCHANGED coreIdle

\* try_pop, stack.rs:74-76: mem::take of the node's value, which leaves None;
\* then `current` and `_guard` are dropped.
SPopDone(t) ==
  /\ At(t, "pop", "take")
  /\ val' = [val EXCEPT ![loc[t].cur] = Absent]
  /\ ReleasedUnpin(loc[t].cur, t)
  /\ loc' = CallDone(t)
  /\ hist' = LET v == val[loc[t].cur] IN
             IF v = Absent THEN [hist EXCEPT !.badNone = TRUE]
             ELSE [hist EXCEPT !.popped = @ \cup {v}, !.dup = @ \/ v \in hist.popped]
  /\ UNCHANGED <<cells, pc, fr>> /\ UNCHANGED coreIdle

\* main, stack.rs:109: is_empty() once the workers are done; is_empty,
\* stack.rs:79-82: `_guard = pin()` and self.node.load(Relaxed).
SEmptyCall(t) ==
  /\ t = 1 /\ hist.empty = Unknown
  /\ \A u \in Threads : loc[u].op = "none"
  /\ StartCall(t, "load", HeadCell, Null, Null)
  /\ loc' = [loc EXCEPT ![t].op = "is_empty", ![t].at = "load"]
  /\ NoRelease /\ UNCHANGED <<val, cells, hist>> /\ UNCHANGED coreIdle

\* is_empty, stack.rs:81: .is_null(); the handle and `_guard` are dropped.
SEmptyDone(t) ==
  /\ At(t, "is_empty", "load") /\ pc[t] = "ret"
  /\ hist' = [hist EXCEPT !.empty = IF IsNull(fr[t].ret) THEN "yes" ELSE "no"]
  /\ ReleasedUnpin(fr[t].ret, t)
  /\ fr' = [fr EXCEPT ![t] = NoFrame]
  /\ pc' = [pc EXCEPT ![t] = "idle"]
  /\ loc' = [loc EXCEPT ![t] = [NoLoc EXCEPT !.n = loc[t].n]]
  /\ UNCHANGED <<val, cells>> /\ UNCHANGED coreIdle

\* The steps inside a call on an AtomicXarc, those of the crate.
CallStep(t) ==
  \/ KLoadRead(t) \/ TiLoad(t) \/ TiCas(t)
  \/ CxInc(t) \/ KCxCasOk(t) \/ KCxCasErr(t) \/ CxDec(t) \/ Ior(t)

StackNext ==
  \/ \E t \in Threads : SPushCall(t)
  \/ \E t \in Threads : SPushNew(t)
  \/ \E t \in Threads : SPushOk(t)
  \/ \E t \in Threads : SPushErr(t)
  \/ \E t \in Threads : SPushDone(t)
  \/ \E t \in Threads : SPopCall(t)
  \/ \E t \in Threads : SPopLoaded(t)
  \/ \E t \in Threads : SPopNone(t)
  \/ \E t \in Threads : SPopErr(t)
  \/ \E t \in Threads : SPopOk(t)
  \/ \E t \in Threads : SPopDone(t)
  \/ \E t \in Threads : SEmptyCall(t)
  \/ \E t \in Threads : SEmptyDone(t)
  \/ \E t \in Threads : CallStep(t)
  \/ \E b \in Blocks : KReclaimField(b, "next")
  \/ \E b \in Blocks : KFree(b)

StackSpec == StackInit /\ [][StackNext]_vars

\* ------------------------------------------------- examples/queue.rs
\* The queue has its own addresses: a node and a value for every push, the
\* node the queue starts with, and the nodes a retry allocates.
NQueueBlocks == 8
MaxQueueOps == 2
QBlocks == 1..NQueueBlocks

\* Queue::new(), queue.rs:32-38: one node, Node::null() (queue.rs:17-24), held
\* by head and by tail; the local `node` has been dropped.
QueueInit ==
  /\ count = [b \in QBlocks |-> IF b = 1 THEN 2 ELSE 0]
  /\ mem = [b \in QBlocks |-> IF b = 1 THEN "live" ELSE "unalloc"]
  /\ val = [b \in QBlocks |-> Absent]
  /\ pinnedAt = [b \in QBlocks |-> {}]
  /\ slot = Null /\ slotLive = FALSE /\ installed = Null /\ nops = 0
  /\ h = [t \in Threads |-> [p \in Ptrs |-> 0]]
  /\ pc = [t \in Threads |-> "idle"]
  /\ fr = [t \in Threads |-> NoFrame]
  /\ pin = [t \in Threads |-> 0]
  /\ panicked = FALSE /\ ub = FALSE /\ doubleFree = FALSE
  /\ cells = [c \in CellsOf(QBlocks) |->
               IF c \in {HeadCell, TailCell} THEN 1 ELSE Null]
  /\ loc = [t \in Threads |-> NoLoc]
  /\ hist = [hw |-> 1, pushes |-> 0, pushed |-> {}, pops |-> 0, popped |-> {},
             dup |-> FALSE, badNone |-> FALSE, none |-> FALSE, unwrap |-> FALSE,
             phased |-> TRUE, empty |-> Unknown]

QMayCall(t) ==
  /\ loc[t].op = "none" /\ loc[t].n < MaxQueueOps
  /\ hist.empty = Unknown /\ \A u \in Threads : loc[u].op # "is_empty"

\* Dropping a null handle touches nothing (internal.rs:50): what is left of a
\* list of handles to drop.
NonNull(ds) == SelectSeq(ds, LAMBDA p : p # Null)

\* The call on an AtomicXarc that position `then` of push, try_pop,
\* try_update_tail or is_empty enters: its kind, the AtomicXarc, `current`
\* and `new`.
QLoads == {"load", "lv", "ln", "lt", "reload", "eh", "et"}
QOfNode == {"cxv", "lv", "lt", "tn", "ln"}
CallKind(L) ==
  IF L.then \in QLoads THEN "load"
  ELSE IF L.then = "tt" THEN "compare_and_swap" ELSE "compare_exchange"
CallCell(L) ==
  IF L.then \in {"cxv", "lv", "lt"} THEN ValueOf(L.cur)
  ELSE IF L.then \in {"tn", "ln"} THEN NextOf(L.cur)
  ELSE IF L.then \in {"tt", "et"} THEN TailCell
  ELSE HeadCell
CallCur(L) == IF L.then \in {"tt", "cxh"} THEN L.cur ELSE Null
CallNew(L) ==
  IF L.then = "cxv" THEN L.vh
  ELSE IF L.then = "tt" /\ L.tut = "err" THEN L.nx
  ELSE IF L.then \in {"tn", "tt", "cxh"} THEN L.new
  ELSE Null

\* What a call that returns leaves in the history: the value pushed; the
\* value popped, or that try_pop gave None; what is_empty said.
QFinish(L) ==
  IF L.op = "push" THEN [hist EXCEPT !.pushed = @ \cup {L.v}]
  ELSE IF L.op = "is_empty" THEN [hist EXCEPT !.empty = L.how]
  ELSE IF L.how = "empty" THEN [hist EXCEPT !.none = TRUE]
  ELSE IF L.how = "unwrap" THEN [hist EXCEPT !.unwrap = TRUE]
  ELSE IF L.res = Absent THEN [hist EXCEPT !.badNone = TRUE]
  ELSE [hist EXCEPT !.popped = @ \cup {L.res}, !.dup = @ \/ L.res \in hist.popped]

\* The call of thread t goes on at L.then, with locals L, after it has dropped
\* handle p: it returns (`_guard` is dropped last), or allocates, or enters the
\* next call on an AtomicXarc, which panics where .maybe_deref().unwrap()
\* (queue.rs:47, 72, 87, 98) finds a null handle.
Begin(t, L, p, nv) ==
  /\ val' = nv /\ cells' = cells
  /\ IF L.then = "fin"
     THEN /\ ReleasedUnpin(p, t)
          /\ fr' = [fr EXCEPT ![t] = NoFrame]
          /\ pc' = [pc EXCEPT ![t] = "idle"]
          /\ loc' = [loc EXCEPT ![t] =
                      [NoLoc EXCEPT !.n = L.n + (IF L.op = "is_empty" THEN 0 ELSE 1)]]
          /\ hist' = QFinish(L)
     ELSE IF L.then = "alloc"
     THEN /\ Released(p, t) /\ EndCall(t)
          /\ loc' = [loc EXCEPT ![t] = [L EXCEPT !.at = "alloc"]]
          /\ hist' = hist
     ELSE IF L.then \in QOfNode /\ L.cur = Null
     THEN /\ Released(p, t) /\ EndCall(t)
          /\ loc' = [loc EXCEPT ![t] = [L EXCEPT !.at = "panic", !.op = "panic"]]
          /\ hist' = [hist EXCEPT !.unwrap = TRUE]
     ELSE /\ Released(p, t)
          /\ StartCall(t, CallKind(L), CallCell(L), CallCur(L), CallNew(L))
          /\ loc' = [loc EXCEPT ![t] = [L EXCEPT !.at = L.then]]
          /\ hist' = hist

\* The handles of L.drops go out of scope one at a time, each drop a step of
\* its own (Drop for Xarc, pointer.rs:140-144); with the last one the call
\* goes on.
QStep(t, L, nv) ==
  LET ds == NonNull(L.drops) IN
    IF ds = <<>> THEN Begin(t, [L EXCEPT !.drops = <<>>], Null, nv)
    ELSE IF Len(ds) = 1 THEN Begin(t, [L EXCEPT !.drops = <<>>], Head(ds), nv)
    ELSE /\ Released(Head(ds), t) /\ EndCall(t)
         /\ loc' = [loc EXCEPT ![t] = [L EXCEPT !.drops = Tail(ds), !.at = "drop"]]
         /\ val' = nv /\ UNCHANGED <<hist, cells>>

QDrop(t) ==
  /\ loc[t].at = "drop"
  /\ QStep(t, loc[t], val)
  /\ UNCHANGED coreIdle

\* main, queue.rs:136-140: the workers push, and no push starts once a try_pop
\* has started.  push, queue.rs:41-45: `_guard = pin()`, value =
\* Xarc::new(..Some(value)..), new_tail = Xarc::new(Node::null()), and
\* self.tail.load(Relaxed) is entered.
QPushCall(t) ==
  /\ QMayCall(t) /\ hist.pushes < MaxPush /\ hist.pops = 0
  /\ \E b \in KAddrs :
       \E n \in {a \in QBlocks \ {b} : mem[a] = "unalloc" /\ a <= KMax(hist.hw, b) + 1} :
         /\ mem' = [mem EXCEPT ![b] = "live", ![n] = "live"]
         /\ count' = [count EXCEPT ![b] = 1, ![n] = 1]
         /\ val' = [val EXCEPT ![b] = PushValue(hist.pushes)]
         /\ loc' = [loc EXCEPT ![t].op = "push", ![t].at = "load",
                               ![t].v = PushValue(hist.pushes),
                               ![t].vh = b, ![t].new = n]
         /\ hist' = [hist EXCEPT !.pushes = @ + 1, !.hw = KMax(KMax(@, b), n)]
  /\ StartCall(t, "load", TailCell, Null, Null)
  /\ UNCHANGED <<pinnedAt, doubleFree, ub, cells>> /\ UNCHANGED coreIdle

\* push, queue.rs:45-47: current_tail is what the load gave; the loop is
\* entered with current_tail.value.compare_exchange(&Xarc::null(), &value).
QPushLoaded(t) ==
  /\ At(t, "push", "load") /\ pc[t] = "ret"
  /\ QStep(t, [loc[t] EXCEPT !.cur = fr[t].ret, !.then = "cxv"], val)
  /\ UNCHANGED coreIdle

\* push, queue.rs:47-53: Ok(_) or Err(_); either way try_update_tail(
\* &current_tail, &new_tail) is called, which enters current_tail.next
\* .compare_exchange(&Xarc::null(), new_tail) (queue.rs:98).  The handle
\* matched lives to the end of the match.
QPushValue(t) ==
  /\ At(t, "push", "cxv") /\ pc[t] = "ret"
  /\ QStep(t, [loc[t] EXCEPT !.ctx = IF fr[t].ok THEN "pushok" ELSE "pusherr",
                             !.vx = fr[t].ret, !.then = "tn"], val)
  /\ UNCHANGED coreIdle

\* try_update_tail, queue.rs:98-100: on Ok .map drops the handle it is given
\* and enters self.tail.compare_and_swap(current_tail, new_tail); on Err
\* .map_err enters self.tail.compare_and_swap(current_tail, &current_tail_next).
QTutNext(t) ==
  /\ loc[t].at = "tn" /\ pc[t] = "ret"
  /\ QStep(t, [loc[t] EXCEPT !.tut = IF fr[t].ok THEN "ok" ELSE "err",
                             !.nx = IF fr[t].ok THEN Null ELSE fr[t].ret,
                             !.drops = IF fr[t].ok THEN <<fr[t].ret>> ELSE <<>>,
                             !.then = "tt"], val)
  /\ UNCHANGED coreIdle

\* try_update_tail returns Ok(x) or Err(x), x the handle compare_and_swap gave
\* (atomic.rs:55-60); the closure's current_tail_next is dropped first.  Then:
\* queue.rs:49-50, `let _ =` drops x, break, and push returns, which drops the
\* handle matched, current_tail, new_tail and value; queue.rs:54-58,
\* current_tail = x drops the old current_tail, and on Ok a new_tail is
\* allocated; queue.rs:80-83, the Result is dropped after .is_err(), on Err
\* self.head.load(Relaxed) is entered, otherwise head.compare_exchange
\* (queue.rs:85).
QTutTail(t) ==
  /\ loc[t].at = "tt" /\ pc[t] = "ret"
  /\ LET l == loc[t]
         x == fr[t].ret
         L == IF l.ctx = "pushok"
              THEN [l EXCEPT !.drops = <<l.nx, x, l.vx, l.cur, l.new, l.vh>>,
                             !.nx = Null, !.vx = Null, !.cur = Null,
                             !.new = Null, !.vh = Null, !.then = "fin"]
              ELSE IF l.ctx = "pusherr" /\ l.tut = "ok"
              THEN [l EXCEPT !.drops = <<l.nx, l.cur>>, !.nx = Null,
                             !.cur = x, !.then = "alloc"]
              ELSE IF l.ctx = "pusherr"
              THEN [l EXCEPT !.drops = <<l.nx, l.cur, l.vx>>, !.nx = Null,
                             !.vx = Null, !.cur = x, !.then = "cxv"]
              ELSE [l EXCEPT !.drops = <<l.nx, x>>, !.nx = Null,
                             !.then = IF l.tut = "err" THEN "reload" ELSE "cxh"]
     IN QStep(t, L, val)
  /\ UNCHANGED coreIdle

\* Xarc::new(Node::null()): queue.rs:56, new_tail = ..., which drops the old
\* new_tail, and then the handle matched at queue.rs:47 is dropped;
\* queue.rs:79-80, next = ..., and try_update_tail(&current_head, &next).
QAlloc(t) ==
  /\ loc[t].at = "alloc"
  /\ \E b \in KAddrs :
       /\ mem' = [mem EXCEPT ![b] = "live"]
       /\ count' = [count EXCEPT ![b] = 1]
       /\ hist' = [hist EXCEPT !.hw = KMax(@, b)]
       /\ loc' = [loc EXCEPT ![t] =
                   IF loc[t].op = "push"
                   THEN [loc[t] EXCEPT !.new = b, !.drops = <<loc[t].new, loc[t].vx>>,
                                       !.vx = Null, !.then = "cxv", !.at = "drop"]
                   ELSE [loc[t] EXCEPT !.new = b, !.drops = <<>>,
                                       !.then = "tn", !.at = "drop"]]
  /\ UNCHANGED <<val, pinnedAt, doubleFree, ub, cells, pc, fr, pin>>
  /\ UNCHANGED coreIdle

\* main, queue.rs:142-146: the workers pop once all pushes are complete; a
\* try_pop may also start while a push is still running, and then the run is
\* not phased.  try_pop, queue.rs:68-70: `_guard = pin()` and
\* self.head.load(Relaxed).
QPopCall(t) ==
  /\ QMayCall(t) /\ hist.pops < MaxPush
  /\ StartCall(t, "load", HeadCell, Null, Null)
  /\ loc' = [loc EXCEPT ![t].op = "pop", ![t].at = "load"]
  /\ hist' = [hist EXCEPT !.pops = @ + 1,
                          !.phased = @ /\ \A u \in Threads : loc[u].op # "push"]
  /\ NoRelease /\ UNCHANGED <<val, cells>> /\ UNCHANGED coreIdle

\* try_pop, queue.rs:70-73: current_head is what the load gave; the loop is
\* entered with current_head.value.load(Relaxed).
QPopLoaded(t) ==
  /\ At(t, "pop", "load") /\ pc[t] = "ret"
  /\ QStep(t, [loc[t] EXCEPT !.cur = fr[t].ret, !.then = "lv"], val)
  /\ UNCHANGED coreIdle

\* try_pop, queue.rs:74-77: if value.is_null() return None, else
\* current_head.next.load(Relaxed).
QPopValue(t) ==
  /\ At(t, "pop", "lv") /\ pc[t] = "ret"
  /\ QStep(t, IF IsNull(fr[t].ret)
              THEN [loc[t] EXCEPT !.how = "empty", !.drops = <<loc[t].cur>>,
                                  !.cur = Null, !.then = "fin"]
              ELSE [loc[t] EXCEPT !.vh = fr[t].ret, !.then = "ln"], val)
  /\ UNCHANGED coreIdle

\* try_pop, queue.rs:77-85: if next.is_null() a node is allocated for
\* try_update_tail, else self.head.compare_exchange(&current_head, &next).
QPopNext(t) ==
  /\ At(t, "pop", "ln") /\ pc[t] = "ret"
  /\ QStep(t, [loc[t] EXCEPT !.new = fr[t].ret, !.ctx = "pop",
                             !.then = IF IsNull(fr[t].ret) THEN "alloc" ELSE "cxh"],
           val)
  /\ UNCHANGED coreIdle

\* try_pop, queue.rs:81-82: current_head = self.head.load(Relaxed) drops the
\* old current_head; continue drops next and value.
QPopReloaded(t) ==
  /\ At(t, "pop", "reload") /\ pc[t] = "ret"
  /\ QStep(t, [loc[t] EXCEPT !.drops = <<loc[t].cur, loc[t].new, loc[t].vh>>,
                             !.cur = fr[t].ret, !.new = Null, !.vh = Null,
                             !.then = "lv"], val)
  /\ UNCHANGED coreIdle

\* try_pop, queue.rs:85-92: Ok(_) enters current_head.value.load(Acquire);
\* Err(head): current_head = head drops the old current_head, and the turn of
\* the loop ends, which drops next and value.
QPopHead(t) ==
  /\ At(t, "pop", "cxh") /\ pc[t] = "ret"
  /\ QStep(t, IF fr[t].ok
              THEN [loc[t] EXCEPT !.okh = fr[t].ret, !.then = "lt"]
              ELSE [loc[t] EXCEPT !.drops = <<loc[t].cur, loc[t].new, loc[t].vh>>,
                                  !.cur = fr[t].ret, !.new = Null, !.vh = Null,
                                  !.then = "lv"], val)
  /\ UNCHANGED coreIdle

\* try_pop, queue.rs:87: mem::take through the handle loaded, which leaves
\* None; then the handle loaded, the handle matched, next, value and
\* current_head are dropped.
QPopTake(t) ==
  /\ At(t, "pop", "lt") /\ pc[t] = "ret"
  /\ LET tv == fr[t].ret
         l == loc[t] IN
       QStep(t, [l EXCEPT !.res = MaybeDeref(tv),
                          !.how = IF IsNull(tv) THEN "unwrap" ELSE "take",
                          !.drops = <<tv, l.okh, l.new, l.vh, l.cur>>,
                          !.okh = Null, !.new = Null, !.vh = Null, !.cur = Null,
                          !.then = "fin"],
             IF IsNull(tv) THEN val ELSE [val EXCEPT ![tv] = Absent])
  /\ UNCHANGED coreIdle

\* main, queue.rs:149: is_empty() once the workers are done; is_empty,
\* queue.rs:103-105: `_guard = pin()` and self.head.load(Relaxed).
QEmptyCall(t) ==
  /\ t = 1 /\ hist.empty = Unknown
  /\ \A u \in Threads : loc[u].op = "none"
  /\ StartCall(t, "load", HeadCell, Null, Null)
  /\ loc' = [loc EXCEPT ![t].op = "is_empty", ![t].at = "eh"]
  /\ NoRelease /\ UNCHANGED <<val, cells, hist>> /\ UNCHANGED coreIdle

\* is_empty, queue.rs:105: ... == self.tail.load(Relaxed).
QEmptyHead(t) ==
  /\ At(t, "is_empty", "eh") /\ pc[t] = "ret"
  /\ QStep(t, [loc[t] EXCEPT !.cur = fr[t].ret, !.then = "et"], val)
  /\ UNCHANGED coreIdle

\* is_empty, queue.rs:105: the two handles are compared (PartialEq,
\* pointer.rs:152-157) and dropped, then `_guard`.
QEmptyTail(t) ==
  /\ At(t, "is_empty", "et") /\ pc[t] = "ret"
  /\ QStep(t, [loc[t] EXCEPT !.how = IF XarcEq(loc[t].cur, fr[t].ret)
                                     THEN "yes" ELSE "no",
                             !.drops = <<fr[t].ret, loc[t].cur>>,
                             !.cur = Null, !.then = "fin"], val)
  /\ UNCHANGED coreIdle

QueueNext ==
  \/ \E t \in Threads : QPushCall(t)
  \/ \E t \in Threads : QPushLoaded(t)
  \/ \E t \in Threads : QPushValue(t)
  \/ \E t \in Threads : QTutNext(t)
  \/ \E t \in Threads : QTutTail(t)
  \/ \E t \in Threads : QAlloc(t)
  \/ \E t \in Threads : QDrop(t)
  \/ \E t \in Threads : QPopCall(t)
  \/ \E t \in Threads : QPopLoaded(t)
  \/ \E t \in Threads : QPopValue(t)
  \/ \E t \in Threads : QPopNext(t)
  \/ \E t \in Threads : QPopReloaded(t)
  \/ \E t \in Threads : QPopHead(t)
  \/ \E t \in Threads : QPopTake(t)
  \/ \E t \in Threads : QEmptyCall(t)
  \/ \E t \in Threads : QEmptyHead(t)
  \/ \E t \in Threads : QEmptyTail(t)
  \/ \E t \in Threads : CallStep(t)
  \/ \E b \in QBlocks : KReclaimField(b, "value")
  \/ \E b \in QBlocks : KReclaimField(b, "next")
  \/ \E b \in QBlocks : KFree(b)

QueueSpec == QueueInit /\ [][QueueNext]_vars

\* A thread inside load keeps running: the steps of load's loop (the read of the
\* slot, atomic.rs:106, and try_increment, internal.rs:20-27) are taken when
\* they stay enabled.  Nothing is assumed of the other actions.
LoadStep(t) == LoadRead(t) \/ TiLoad(t) \/ TiCas(t)
FairSpec == Spec /\ \A t \in Threads : WF_vars(LoadStep(t))

\* ---------------------------------------------------------------- claims
\* Who refers to block b: the Xarc variables of the threads, the Xarc a call
\* is about to return (made by Xarc::init), and the slot.
HandleRefs(b) == SumTo([n \in 0..NThreads |-> IF n = 0 THEN 0 ELSE h[n][b]], NThreads)
RetRefs(b) == Cardinality({t \in Threads : pc[t] = "ret" /\ fr[t].ret = b})
SlotRefs(b) == IF slotLive /\ slot = b THEN 1 ELSE 0
Owners(b) == HandleRefs(b) + RetRefs(b) + SlotRefs(b)

AtRet(t) == pc[t] = "ret"
StrongKinds == {"compare_exchange", "compare_and_swap"}

\* C1: a block is scheduled for deallocation exactly once: no allocation sees a
\* second 1->0 transition, a retired or freed block has count 0 and no Xarc and
\* no slot refers to it, and a block that is still live has an owner (so the
\* last release is the one that retires it).
C1_RetiredExactlyOnce ==
  /\ ~doubleFree
  /\ \A b \in Blocks :
       /\ mem[b] # "live" => count[b] = 0 /\ Owners(b) = 0
       /\ mem[b] = "live" => count[b] >= 1 /\ Owners(b) >= 1

\* C1 witness: a block was retired by the last drop while a load of another
\* thread still holds its address.
C1_Witness ==
  \E b \in Blocks, t \in Threads :
    mem[b] = "retired" /\ pc[t] = "ti_cas" /\ fr[t].ptr = b /\ fr[t].kind = "load"

\* C2: every non-null handle load returns (the reload of increment_or_reload
\* included) owns one reference, taken when the count it replaced was > 0, on
\* a block that is live; load returns nothing else than a handle.
IsLoad(t) == fr[t].kind = "load" \/ fr[t].phase = "reload"
C2_LoadNeverStale ==
  \A t \in Threads :
    AtRet(t) /\ IsLoad(t) =>
      /\ fr[t].ret # Absent
      /\ fr[t].ret # Null =>
           /\ mem[fr[t].ret] = "live"
           /\ count[fr[t].ret] >= 1
           /\ fr[t].c > 0
           /\ fr[t].delta[fr[t].ret] = 1

\* C2 witness: load found the count of the block it read at 0, took another
\* turn of its loop and returns a block.
C2_Witness ==
  \E t \in Threads :
    AtRet(t) /\ fr[t].kind = "load" /\ fr[t].retried /\ fr[t].ret \in Blocks

\* C3, every step: a live block is never freed in one step; the step that
\* retires it records the guards pinned then; a guard leaves that record only
\* when it is dropped; the block is freed only when the record is empty.
C3_StepDeferred ==
  \A b \in Blocks :
    /\ mem[b] = "live" => mem'[b] # "unalloc"
    /\ mem[b] = "live" /\ mem'[b] = "retired" =>
         {u \in Threads : pin[u] > 0 /\ pin'[u] > 0} \subseteq pinnedAt'[b]
    /\ mem[b] = "retired" /\ mem'[b] = "retired" =>
         \A u \in pinnedAt[b] \ pinnedAt'[b] : pin'[u] = 0
    /\ mem[b] = "retired" /\ mem'[b] = "unalloc" => pinnedAt[b] = {}

\* C3, every state: no count of a freed block was read or updated, and the
\* address a call is about to use is that of a block not freed since it was read.
C3_NoUseAfterFree ==
  /\ ~ub
  /\ \A t \in Threads :
       pc[t] \in RawHeld /\ fr[t].ptr # Null =>
         ~fr[t].dangling /\ mem[fr[t].ptr] # "unalloc"

\* C3: the 1->0 transition only retires the block; it is freed only when no
\* guard pinned at that transition is left; and no call reads or updates the
\* count of a freed block.
C3_DeferredReclamation == [][C3_StepDeferred]_vars /\ []C3_NoUseAfterFree

\* C3 witness: a retired block that cannot be freed yet, because the thread
\* that is about to read its count holds a guard pinned before the retirement.
C3_Witness ==
  \E b \in Blocks, t \in Threads :
    mem[b] = "retired" /\ t \in pinnedAt[b] /\ pc[t] = "ti_load" /\ fr[t].ptr = b

\* C4: the handle compare_and_swap returns equals `current` if and only if the
\* call installed `new`.
C4_InferByComparison ==
  \A t \in Threads :
    AtRet(t) /\ fr[t].kind = "compare_and_swap" =>
      ((fr[t].ret = fr[t].cur) <=> fr[t].ok)

\* C5: the handle a failed compare_exchange(_weak) returns refers to a value
\* the slot held at some instant of the call.
C5_ErrWasInSlot ==
  \A t \in Threads :
    AtRet(t) /\ fr[t].kind \in CxKinds /\ ~fr[t].ok => fr[t].ret \in fr[t].seen

\* C5 witness: a failed call whose result came from the full load, because
\* the block the failed CAS read had been released meanwhile.
C5_Witness ==
  \E t \in Threads :
    AtRet(t) /\ fr[t].kind \in CxKinds /\ ~fr[t].ok /\ fr[t].phase = "reload"
      /\ fr[t].ret # fr[t].atCas

\* C6: successes are totally ordered: a strong compare_exchange succeeds iff
\* the slot held `current`'s allocation at its CAS, and a successful swap or
\* CAS returns the value the preceding success (or the constructor) installed.
C6_Linearizable ==
  \A t \in Threads :
    fr[t].atCas # Absent =>
      /\ fr[t].kind \in StrongKinds => (fr[t].ok <=> fr[t].atCas = fr[t].cur)
      /\ fr[t].ok => fr[t].ret = fr[t].prevInst /\ fr[t].ret = fr[t].atCas

\* C6 witness: two successes in a row by two threads, the second one a
\* compare_exchange that returns what the first one installed.
C6_Witness ==
  \E t \in Threads, u \in Threads :
    /\ t # u /\ AtRet(t) /\ AtRet(u) /\ fr[t].ok /\ fr[u].ok
    /\ fr[t].kind = "swap" /\ fr[u].kind = "compare_exchange"
    /\ fr[u].prevInst = fr[t].new /\ fr[t].ret \in Blocks

\* The call's own net change of the counts is one reference on block p (none
\* when p is null) and nothing else.
OnlyChange(t, p) == \A b \in Blocks : fr[t].delta[b] = IF b = p THEN 1 ELSE 0
CxSuccess(t) == AtRet(t) /\ fr[t].kind \in CxKinds /\ fr[t].ok
CxFailure(t) == AtRet(t) /\ fr[t].kind \in CxKinds /\ ~fr[t].ok

\* C7 as stated: after a successful compare_exchange(_weak) the slot holds
\* `new`, the call raised the count of new's block by exactly one and did not
\* change the count of the previous block.
C7_SuccessTransfers ==
  \A t \in Threads :
    CxSuccess(t) =>
      /\ fr[t].after = fr[t].new
      /\ fr[t].ret = fr[t].atCas
      /\ fr[t].new # Null => fr[t].delta[fr[t].new] = 1
      /\ fr[t].ret # Null => fr[t].delta[fr[t].ret] = 0

\* C7 amended: after a successful compare_exchange(_weak) the slot holds `new`,
\* the returned handle is the slot's previous value, and the call's only change
\* of any count is the one reference added to new's block; the previous
\* block's count is unchanged unless it is new's block itself.
C7_SuccessTransfersAmended ==
  \A t \in Threads :
    CxSuccess(t) =>
      /\ fr[t].after = fr[t].new
      /\ fr[t].ret = fr[t].atCas
      /\ OnlyChange(t, fr[t].new)

\* C7 witness: a successful compare_exchange_weak that replaced one block by
\* another.
C7_Witness ==
  \E t \in Threads :
    /\ CxSuccess(t) /\ fr[t].kind = "compare_exchange_weak"
    /\ fr[t].ret \in Blocks /\ fr[t].new \in Blocks /\ fr[t].ret # fr[t].new

\* C8: a failed compare_exchange(_weak) stored nothing in the slot; once the
\* rollback is done the call's net change of every count is zero, and the
\* rollback found new's count at 2 or more; the handle returned owns one
\* reference of its own, the call's only net change, on a live block.
C8_FailureRollsBack ==
  \A t \in Threads :
    /\ pc[t] = "ior" => fr[t].delta = ZeroDelta
    /\ pc[t] = "ior" /\ fr[t].new # Null => fr[t].decOld >= 2 /\ mem[fr[t].new] = "live"
    /\ CxFailure(t) =>
         /\ fr[t].after = Absent
         /\ fr[t].ret # Absent
         /\ OnlyChange(t, fr[t].ret)
         /\ fr[t].ret # Null => mem[fr[t].ret] = "live" /\ count[fr[t].ret] >= 1

\* C8 witness: a spurious failure of compare_exchange_weak, the slot holding
\* `current`, with a block as `new`.
C8_Witness ==
  \E t \in Threads :
    /\ CxFailure(t) /\ fr[t].kind = "compare_exchange_weak"
    /\ fr[t].atCas = fr[t].cur /\ fr[t].new \in Blocks /\ fr[t].ret \in Blocks

\* C9 as stated: swap always succeeds, leaves `new` in the slot, raises the
\* count of new's block by exactly one, returns the value the slot held just
\* before and does not change the count of that previous block.
C9_SwapTransfers ==
  \A t \in Threads :
    AtRet(t) /\ fr[t].kind = "swap" =>
      /\ fr[t].ok
      /\ fr[t].after = fr[t].new
      /\ fr[t].ret = fr[t].atCas
      /\ fr[t].new # Null => fr[t].delta[fr[t].new] = 1
      /\ fr[t].ret # Null => fr[t].delta[fr[t].ret] = 0

\* C9 amended: swap always succeeds, leaves `new` in the slot and returns the
\* value the slot held just before; its only change of any count is the one
\* reference added to new's block, so the previous block's count is unchanged
\* unless the slot already held new's block.
C9_SwapTransfersAmended ==
  \A t \in Threads :
    AtRet(t) /\ fr[t].kind = "swap" =>
      /\ fr[t].ok
      /\ fr[t].after = fr[t].new
      /\ fr[t].ret = fr[t].atCas
      /\ OnlyChange(t, fr[t].new)

\* C9 witness: a swap that put one block in the place of another.
C9_Witness ==
  \E t \in Threads :
    /\ AtRet(t) /\ fr[t].kind = "swap"
    /\ fr[t].ret \in Blocks /\ fr[t].new \in Blocks /\ fr[t].ret # fr[t].new

\* C10: compare_exchange compares allocations, not values: with `current`
\* another allocation of an equal value it fails and stores nothing; with
\* `current` the allocation the slot holds it succeeds, returns that
\* allocation (and so its value) and leaves `new` in the slot.
C10_ByIdentity ==
  \A t \in Threads :
    AtRet(t) /\ fr[t].kind = "compare_exchange" =>
      /\ ( /\ fr[t].cur \in Blocks /\ fr[t].atCas \in Blocks
           /\ fr[t].cur # fr[t].atCas /\ val[fr[t].cur] = val[fr[t].atCas] )
         => ~fr[t].ok /\ fr[t].after = Absent
      /\ fr[t].cur = fr[t].atCas
         => fr[t].ok /\ fr[t].ret = fr[t].cur /\ fr[t].after = fr[t].new

\* C10 witness: the documentation's failing call, compare_exchange(&different,
\* &Xarc::null()) with `different` another allocation of the slot's value.
C10_Witness ==
  \E t \in Threads :
    /\ AtRet(t) /\ fr[t].kind = "compare_exchange" /\ ~fr[t].ok
    /\ fr[t].cur \in Blocks /\ fr[t].atCas \in Blocks /\ fr[t].cur # fr[t].atCas
    /\ val[fr[t].cur] = 42 /\ val[fr[t].atCas] = 42 /\ fr[t].new = Null

\* C11: a handle keeps its block alive whatever happens to the slot: a block a
\* thread holds a handle of (one load or try_load is about to return included)
\* is live, not retired, and maybe_deref reads a value through the handle even
\* when the slot is destroyed or holds something else.
C11_HandleKeepsAlive ==
  \A t \in Threads, b \in Blocks :
    (Holds(t, b) \/ (AtRet(t) /\ fr[t].ret = b)) =>
      mem[b] = "live" /\ count[b] >= 1 /\ MaybeDeref(b) \in Vals

\* C11 witness: the slot's value was replaced, and the handle swapped out was
\* dropped, while a load or try_load was returning the block: the handle it
\* returns is the only owner left and reads the value.
C11_Witness ==
  \E t \in Threads :
    /\ AtRet(t) /\ fr[t].kind \in {"load", "try_load"} /\ fr[t].ret \in Blocks
    /\ slot # fr[t].ret /\ count[fr[t].ret] = 1 /\ MaybeDeref(fr[t].ret) = 42

\* C12: try_load makes one attempt.  It returns Err exactly when the slot held
\* a block whose count try_increment found at 0; then the call changed no
\* count and stored nothing in the slot, and the slot no longer holds the
\* block it read, so another thread replaced the slot's value during the call
\* (without such a replacement the result is Ok).  Ok carries the value read.
C12_TryLoadOnce ==
  \A t \in Threads :
    AtRet(t) /\ fr[t].kind = "try_load" =>
      /\ ~fr[t].retried /\ fr[t].phase = "top"
      /\ ~fr[t].ok <=> (fr[t].ptr \in Blocks /\ fr[t].c = 0)
      /\ fr[t].ok => fr[t].ret = fr[t].ptr /\ OnlyChange(t, fr[t].ptr)
      /\ ~fr[t].ok =>
           /\ fr[t].ret = Absent /\ fr[t].delta = ZeroDelta /\ fr[t].after = Absent
           /\ count[fr[t].ptr] = 0 /\ mem[fr[t].ptr] = "retired"
           /\ slot # fr[t].ptr

\* C12 witness: try_load returns Err(()).
C12_Witness ==
  \E t \in Threads :
    AtRet(t) /\ fr[t].kind = "try_load" /\ ~fr[t].ok /\ fr[t].ptr \in Blocks

\* C13, every state: a turn of load's loop that failed found the count of the
\* block it read at 0, and the slot no longer holds that block: its value was
\* replaced after the read (so without a replacement the first turn returns).
InLoad(t) == fr[t].kind = "load" /\ pc[t] \in {"ld_read", "ti_load", "ti_cas"}
C13_FailedTurnMeansReplaced ==
  \A t \in Threads :
    fr[t].kind = "load" /\ pc[t] = "ld_read" /\ fr[t].retried =>
      /\ fr[t].c = 0 /\ count[fr[t].ptr] = 0 /\ mem[fr[t].ptr] = "retired"
      /\ slot # fr[t].ptr

\* C13: load is lock-free: a turn of its loop fails only when the slot's value
\* was replaced between the read and the increment, and a thread that keeps
\* running inside load returns (the other threads make finitely many calls).
C13_LoadLockFree ==
  /\ []C13_FailedTurnMeansReplaced
  /\ \A t \in Threads : InLoad(t) ~> AtRet(t)

\* C13 witness: a turn of load's loop has failed and load is about to read the
\* slot again, which holds another block now.
C13_Witness ==
  \E t \in Threads :
    /\ fr[t].kind = "load" /\ pc[t] = "ld_read" /\ fr[t].retried
    /\ slot \in Blocks /\ fr[t].ptr \in Blocks

\* C16, every state: of the handles the threads hold, two of the same block
\* (a clone and its original) are equal, two of different blocks are not equal
\* whatever their values, a handle of a block never equals a null handle, and
\* two null handles are equal.
HeldPtrs == {p \in Ptrs : \E t \in Threads : Holds(t, p)}
C16_EqIsIdentity ==
  \A p \in HeldPtrs, q \in HeldPtrs :
    /\ XarcEq(p, p)
    /\ p \in Blocks /\ q \in Blocks /\ p # q => ~XarcEq(p, q) /\ ~XarcEq(q, p)
    /\ p \in Blocks /\ q = Null => ~XarcEq(p, q) /\ ~XarcEq(q, p)
    /\ p = Null /\ q = Null => XarcEq(p, q)

\* C16, every step: the handle a new(v) gives is not equal to any handle held
\* before the call, those of blocks holding the same value v included.
C16_NewDiffers ==
  \A t \in Threads, b \in Blocks :
    mem[b] = "unalloc" /\ mem'[b] = "live" /\ h'[t][b] = h[t][b] + 1 =>
      \A q \in HeldPtrs : ~XarcEq(b, q)'

\* C16: handle equality is identity of the allocation.
C16_EqualityByAllocation == []C16_EqIsIdentity /\ [][C16_NewDiffers]_vars

\* C16 witness: a thread holds a block twice (a handle and its clone) and
\* another block of the same value, and a null handle is held as well.
C16_Witness ==
  \E t \in Threads, u \in Threads, p \in Blocks, q \in Blocks :
    /\ p # q /\ h[t][p] >= 2 /\ Holds(t, q) /\ val[p] = val[q] /\ Holds(u, Null)

\* The counts after one reference on p was released: p's count less one, or
\* nothing changed when p is null.
OneLess(p) == IF p = Null THEN count ELSE [count EXCEPT ![p] = @ - 1]

\* C17, every step: a reset of a handle of block p lowers p's count by one,
\* and no other count, and leaves the handle null; a drop of a handle of p
\* lowers p's count by one and no other; a drop or a reset of a null handle
\* (such as the handle a reset left behind) changes no count and retires
\* nothing; the block is retired exactly when the count went from 1 to 0.
C17_TeardownStep ==
  \A t \in Threads, p \in Ptrs :
    /\ Reset(t, p) =>
         /\ count' = OneLess(p)
         /\ h'[t][Null] = h[t][Null] + (IF p = Null THEN 0 ELSE 1)
         /\ p # Null => h'[t][p] = h[t][p] - 1
    /\ Drop(t, p) => count' = OneLess(p) /\ h'[t][p] = h[t][p] - 1
    /\ Reset(t, p) \/ Drop(t, p) =>
         mem' = IF p # Null /\ count[p] = 1 THEN [mem EXCEPT ![p] = "retired"] ELSE mem

\* C17, every state: what reset or drop would do to a null handle: the
\* decrement of a null pointer leaves every count and every block as it is.
C17_NullTeardown ==
  \A t \in Threads :
    LET d == Decrement(Null, t, FALSE) IN d.count = count /\ d.mem = mem

\* C17: teardown releases exactly one reference.
C17_TeardownReleasesOne == [][C17_TeardownStep]_vars /\ []C17_NullTeardown

\* C17 witness: the only call so far was a new(v); its handle was reset, which
\* retired the block, and the thread holds the null handle the reset left.
C17_Witness ==
  \E t \in Threads, b \in Blocks :
    /\ nops = 1 /\ mem[b] = "retired" /\ count[b] = 0
    /\ h[t][Null] = 1 /\ Held(t) = 1

\* C18, every step: the step that destroys the slot lowers by one the count of
\* the block the slot holds then, retiring it when that count was 1, and
\* changes no other count (so none of a block swapped out earlier); a slot
\* holding null changes no count.
C18_SlotDropStep ==
  slotLive /\ ~slotLive' =>
    /\ count' = OneLess(slot)
    /\ mem' = IF slot # Null /\ count[slot] = 1
              THEN [mem EXCEPT ![slot] = "retired"] ELSE mem

\* C18: destroying the slot releases the one reference the slot holds.
C18_SlotDropReleasesOne == [][C18_SlotDropStep]_vars

\* C18 witness: the slot is destroyed; the block it held first was swapped out
\* and is still owned by a handle, with its count untouched at 1, and the
\* block it held last is retired.
C18_Witness ==
  \E t \in Threads :
    /\ ~slotLive /\ nops = 3 /\ Holds(t, 1) /\ count[1] = 1 /\ mem[1] = "live"
    /\ mem[2] = "retired" /\ count[2] = 0

\* C19, every step: the handle new(v) gives is not null and maybe_deref reads
\* v through it; the handle null() gives is null and maybe_deref reads nothing.
C19_ConstructorStep ==
  \A t \in Threads :
    /\ \A v \in Vals :
         XarcNew(t, v) =>
           \E b \in Blocks :
             /\ h'[t][b] = h[t][b] + 1
             /\ MaybeDeref(b)' = v /\ ~IsNull(b)
    /\ XarcNull(t) =>
         /\ h'[t][Null] = h[t][Null] + 1
         /\ MaybeDeref(Null)' = Absent /\ IsNull(Null)

\* C19, every state: through every handle of a block maybe_deref reads a
\* value and is_null is false; through a null handle it reads nothing.
C19_Observers ==
  \A p \in HeldPtrs :
    IF p = Null THEN IsNull(p) /\ MaybeDeref(p) = Absent
                ELSE ~IsNull(p) /\ MaybeDeref(p) \in Vals

\* C19: what maybe_deref and is_null say of new(v) and of null().
C19_NewAndNull == [][C19_ConstructorStep]_vars /\ []C19_Observers

\* C19 witness: after a new(41) and a null() and nothing else, a thread holds
\* a handle reading 41 and a null handle.
C19_Witness ==
  \E t \in Threads, b \in Blocks :
    nops = 2 /\ Holds(t, b) /\ MaybeDeref(b) = 41 /\ Holds(t, Null)

\* C20: try_take succeeds exactly when the handle is of a block whose count is
\* 1 when it is called; then the value is moved out and the sentinel is left.
\* On a null handle, or with a second owner, it gives the handle back: the
\* same pointer, no count changed, the value still in the block.
C20_TryTakeIffUnique ==
  \A t \in Threads :
    AtRet(t) /\ fr[t].kind = "try_take" =>
      /\ fr[t].ok <=> (fr[t].cur \in Blocks /\ fr[t].c = 1)
      /\ fr[t].ok =>
           /\ fr[t].taken \in Vals /\ fr[t].ret = Absent
      /\ ~fr[t].ok =>
           /\ fr[t].ret = fr[t].cur /\ fr[t].taken = Absent
           /\ fr[t].cur \in Blocks =>
                /\ MaybeDeref(fr[t].cur) \in Vals
                /\ count[fr[t].cur] >= 1 /\ mem[fr[t].cur] = "live"

\* C20, every step: a try_take that succeeds moves out the value the block
\* held and leaves the sentinel; one that does not changes no count, no block
\* and no value.
C20_TryTakeStep ==
  \A t \in Threads :
    pc[t] = "idle" /\ pc'[t] = "ret" /\ fr'[t].kind = "try_take" =>
      IF fr'[t].ok
      THEN fr'[t].taken = val[fr'[t].cur] /\ val'[fr'[t].cur] = Sentinel
      ELSE count' = count /\ mem' = mem /\ val' = val

\* C20: try_take on an owned handle.
C20_TryTake == []C20_TryTakeIffUnique /\ [][C20_TryTakeStep]_vars

\* C20 witness: one try_take has moved the value out of a block owned by its
\* handle alone, and another one, on a handle of the block the slot still
\* holds, has been refused.
C20_Witness ==
  \E t \in Threads, u \in Threads :
    /\ AtRet(t) /\ fr[t].kind = "try_take" /\ fr[t].ok /\ fr[t].taken = 41
    /\ AtRet(u) /\ fr[u].kind = "try_take" /\ ~fr[u].ok /\ fr[u].c = 2
    /\ slot = fr[u].cur

\* The values still in the stack: those of the nodes reached from the head.
RECURSIVE ChainVals(_, _)
ChainVals(p, n) ==
  IF p = Null \/ n = 0 THEN {}
  ELSE (IF val[p] = Absent THEN {} ELSE {val[p]}) \cup ChainVals(cells[NextOf(p)], n - 1)
StackVals == ChainVals(cells[HeadCell], NBlocks)

\* No call of push, try_pop or is_empty is running.
Quiescent == \A t \in Threads : loc[t].op = "none"
AllPopped == Quiescent /\ Cardinality(hist.popped) = Cardinality(hist.pushed)

\* C14, the part on the values: no value is returned by two try_pop; try_pop
\* returns None only on finding the head null, never by taking the value of a
\* node a second time; between calls every value pushed is either in the stack
\* or was returned by a try_pop, not both; is_empty tells whether the head is
\* null, and it is null after as many successful pops as pushes.
C14_Values ==
  /\ ~hist.dup /\ ~hist.badNone
  /\ \A t \in Threads : At(t, "pop", "none") => IsNull(loc[t].cur)
  /\ Quiescent =>
       /\ hist.pushed = hist.popped \cup StackVals
       /\ hist.popped \cap StackVals = {}
       /\ hist.empty # Unknown => (hist.empty = "yes" <=> IsNull(cells[HeadCell]))
  /\ AllPopped => IsNull(cells[HeadCell]) /\ hist.empty # "no"
  /\ ~doubleFree /\ ~ub /\ ~panicked

\* C14 as stated: ... and after as many successful pops as pushes every node
\* has been retired, exactly once.
C14_StackExactlyOnce ==
  /\ C14_Values
  /\ AllPopped => \A b \in Blocks : mem[b] # "live"

\* C14 amended: ... and after as many successful pops as pushes every node is
\* retired, exactly once, by the time the deferred destructors of the retired
\* nodes have run: a node stays live, owned by the `next` of the node popped
\* before it, until that node's deferred drop runs.
C14_StackExactlyOnceAmended ==
  /\ C14_Values
  /\ AllPopped =>
       /\ \A b \in Blocks : mem[b] = "live" => \E a \in Blocks :
            mem[a] = "retired" /\ cells[NextOf(a)] = b /\ count[b] = 1
       /\ (\A b \in Blocks : mem[b] # "retired") =>
            \A b \in Blocks : mem[b] = "unalloc" /\ count[b] = 0

\* C14 witness: both values were pushed and both were popped, is_empty has
\* answered true, and every node has been retired and freed.
C14_Witness ==
  /\ Quiescent /\ hist.pushed = {41, 42} /\ hist.popped = {41, 42}
  /\ hist.empty = "yes" /\ \A b \in Blocks : mem[b] = "unalloc"
  /\ hist.hw = 2

\* As many try_pop as push have returned, all try_pop started after the pushes
\* were complete, and no call is running.
QueueDrained ==
  /\ Quiescent /\ hist.phased
  /\ hist.pops = hist.pushes /\ Cardinality(hist.pushed) = hist.pushes

\* C15: in the queue of examples/queue.rs, when the workers push and then,
\* after all pushes are complete, pop no more often than they pushed, no
\* try_pop returns None; no value is returned by two try_pop and only values
\* pushed are returned; after as many pops as pushes every value pushed has
\* been returned, head and tail are the same node, and is_empty() says so.
C15_QueueExactlyOnce ==
  /\ ~hist.dup /\ ~hist.badNone
  /\ hist.popped \subseteq {PushValue(k) : k \in 0..(hist.pushes - 1)}
  /\ hist.phased /\ hist.pops <= Cardinality(hist.pushed) => ~hist.none
  /\ QueueDrained =>
       /\ hist.popped = hist.pushed
       /\ XarcEq(cells[HeadCell], cells[TailCell])
       /\ hist.empty # "no"
  /\ ~hist.unwrap /\ ~doubleFree /\ ~ub /\ ~panicked

\* C15 witness: two values were pushed by two pushes running at the same time
\* (one of them found the value of the tail node taken, queue.rs:52), the two
\* try_pop started after both had returned, both values were popped, and
\* is_empty() returned true.
C15_Witness ==
  /\ QueueDrained /\ hist.pushed = {41, 42} /\ hist.popped = {41, 42}
  /\ hist.empty = "yes" /\ hist.hw >= 6

\* C21, every step: a block whose count is 0 (it has been retired) keeps the
\* count 0 until it is freed; its address gets a count again only as a new
\* allocation, which starts at 1.
C21_DeadStaysDead ==
  \A b \in Blocks :
    /\ count[b] = 0 /\ mem[b] # "unalloc" => count'[b] = 0 /\ mem'[b] # "live"
    /\ count[b] = 0 /\ mem[b] = "unalloc" /\ count'[b] # 0 =>
         count'[b] = 1 /\ mem'[b] = "live"

\* C21, every state: no count is below 0.
C21_NeverNegative == \A b \in Blocks : count[b] >= 0

\* C21: monotonic death of the count: once at 0 it never rises again, and it
\* never goes below 0.
C21_MonotonicDeath == [][C21_DeadStaysDead]_vars /\ []C21_NeverNegative

\* C21 witness: the failed CAS of a compare_exchange read a block, its
\* increment_or_reload found the count at 0 and reloaded the slot, and the
\* block is still there, retired, with count 0.
C21_Witness ==
  \E t \in Threads :
    /\ AtRet(t) /\ fr[t].kind \in CxKinds /\ fr[t].phase = "reload"
    /\ fr[t].atCas \in Blocks /\ mem[fr[t].atCas] = "retired"
    /\ count[fr[t].atCas] = 0

\* C22, every state: no panic!() of internal.rs has been executed, and every
\* unguarded_increment that is about to run (clone, From<&Xarc>, swap,
\* compare_exchange) is on a null handle or on a block whose count is >= 1.
C22_NoAbort ==
  /\ ~panicked
  /\ \A t \in Threads :
       /\ pc[t] # "panic"
       /\ pc[t] \in {"sw_inc", "cx_inc"} => ~IncPanic(fr[t].new)
       /\ \A p \in Ptrs : Holds(t, p) => ~IncPanic(p)

\* C22 witness: the unguarded_increment of a swap or compare_exchange found
\* the count of `new` at 1, the least it may find, while the other thread is
\* inside a call of its own.
C22_Witness ==
  \E t \in Threads, u \in Threads :
    /\ t # u /\ pc[t] \in {"sw_swap", "cx_cas"} /\ pc[u] \notin {"idle", "ret"}
    /\ fr[t].new \in Blocks /\ fr[t].delta[fr[t].new] = 1
    /\ count[fr[t].new] = 2

\* XarcCount::try_increment of thread t returns in this step.
TryIncrementReturns(t) == TiCas(t) /\ fr'[t].tiRes # "none" /\ pc'[t] # "ti_cas"

\* C23 as stated, every step: try_increment succeeds iff the count before it
\* is > 0 and then returns the new count, the one before plus 1; otherwise it
\* fails, returns the count as it is and leaves it as it is.
C23_TryIncrementStep ==
  \A t \in Threads :
    TryIncrementReturns(t) =>
      LET p == fr[t].ptr IN
        /\ fr'[t].tiRes = "ok" <=> count[p] > 0
        /\ fr'[t].tiRes = "ok" =>
             count' = [count EXCEPT ![p] = @ + 1] /\ fr'[t].tiVal = count[p] + 1
        /\ fr'[t].tiRes = "err" => count' = count /\ fr'[t].tiVal = count[p]

C23_TryIncrement == [][C23_TryIncrementStep]_vars

\* C23 amended, every step: try_increment succeeds iff the count before it is
\* > 0, then raises it by 1 and returns the count it replaced (the one before,
\* not the new one); otherwise it fails, returns the count as it is and leaves
\* it as it is.
C23_TryIncrementStepAmended ==
  \A t \in Threads :
    TryIncrementReturns(t) =>
      LET p == fr[t].ptr IN
        /\ fr'[t].tiRes = "ok" <=> count[p] > 0
        /\ fr'[t].tiRes = "ok" =>
             count' = [count EXCEPT ![p] = @ + 1] /\ fr'[t].tiVal = count[p]
        /\ fr'[t].tiRes = "err" => count' = count /\ fr'[t].tiVal = count[p]

C23_TryIncrementAmended == [][C23_TryIncrementStepAmended]_vars

\* C23 witness: one thread's try_increment returned Ok(1) and left the count
\* of its block at 2, the other's returned Err(0) on a block it left at 0.
C23_Witness ==
  \E t \in Threads, u \in Threads :
    /\ AtRet(t) /\ fr[t].tiRes = "ok" /\ fr[t].tiVal = 1
    /\ fr[t].ret \in Blocks /\ count[fr[t].ret] = 2
    /\ AtRet(u) /\ fr[u].tiRes = "err" /\ fr[u].tiVal = 0
    /\ fr[u].kind = "try_load" /\ count[fr[u].ptr] = 0 /\ mem[fr[u].ptr] = "retired"

\* C24, every step: unguarded_increment and unguarded_decrement on a block
\* panic exactly when the count before their update was at or below 0.
C24_AbortStep ==
  \A t \in Threads, p \in Blocks :
    UnguardedIncrement(t, p) \/ UnguardedDecrement(t, p) =>
      (pc'[t] = "panic" <=> count[p] <= 0)

C24_AbortAtOrBelowZero == [][C24_AbortStep]_vars

\* The optimistic increments in flight on block b: of compare_exchange(_weak)
\* and compare_and_swap, made (atomic.rs:70 / 87) and neither committed by the
\* CAS nor rolled back (atomic.rs:76 / 93); of swap, made (atomic.rs:127) with
\* the swap of atomic.rs:128 still to come.
CxInFlight(b) ==
  Cardinality({t \in Threads : pc[t] \in {"cx_cas", "cx_dec"} /\ fr[t].new = b})
SwapInFlight(b) == Cardinality({t \in Threads : pc[t] = "sw_swap" /\ fr[t].new = b})

\* A block held by the live slot has a count of at least 1 and is live.
SlotBlockAlive == slotLive /\ slot # Null => count[slot] >= 1 /\ mem[slot] = "live"

\* C25 as stated: the count of every live block is the number of Xarc handles
\* of it, plus the slots holding it, plus the optimistic increments of
\* compare_exchange(_weak) in flight; a block held by a live slot has a count
\* of at least 1 and is not retired.
C25_Conservation ==
  /\ \A b \in Blocks : mem[b] = "live" => count[b] = Owners(b) + CxInFlight(b)
  /\ SlotBlockAlive

\* C25 amended: ... plus the optimistic increments in flight of
\* compare_exchange(_weak) and of swap, whose unguarded_increment of `new`
\* also comes before its exchange; a block held by a live slot has a count of
\* at least 1 and is not retired.
C25_ConservationAmended ==
  /\ \A b \in Blocks :
       mem[b] = "live" => count[b] = Owners(b) + CxInFlight(b) + SwapInFlight(b)
  /\ SlotBlockAlive

\* C25 witness: on one block, held by the slot and by a handle of each
\* thread, a swap and a compare_exchange have both made their increment and
\* not yet their exchange: the count is 5.
C25_Witness ==
  \E t \in Threads, u \in Threads, b \in Blocks :
    /\ pc[t] = "sw_swap" /\ pc[u] = "cx_cas" /\ fr[t].new = b /\ fr[u].new = b
    /\ slotLive /\ slot = b /\ Holds(t, b) /\ Holds(u, b)
    /\ count[b] = 5 /\ Owners(b) = 3

\* C26, every step: a load or try_load that reads null in the slot returns a
\* null handle at once; clone and drop of a null handle, the
\* unguarded_increment of swap and compare_exchange on a null `new` and the
\* rollback on a null `new` change no count, retire nothing and do not panic;
\* compare_exchange(null, new) on a slot holding null succeeds and returns a
\* null handle.
C26_NullStep ==
  \A t \in Threads :
    /\ LoadRead(t) /\ slot = Null /\ fr[t].kind \in {"load", "try_load"} =>
         /\ pc'[t] = "ret" /\ fr'[t].ok /\ IsNull(fr'[t].ret)
         /\ count' = count /\ ~panicked'
    /\ Clone(t, Null) \/ Drop(t, Null) =>
         count' = count /\ mem' = mem /\ ~panicked'
    /\ (SwInc(t) \/ CxInc(t) \/ CxDec(t)) /\ fr[t].new = Null =>
         count' = count /\ mem' = mem /\ ~panicked' /\ pc'[t] # "panic"
    /\ (CxCasOk(t) \/ CxCasErr(t)) /\ fr[t].kind \in StrongKinds
         /\ fr[t].cur = Null /\ slot = Null =>
           /\ pc'[t] = "ret" /\ fr'[t].ok /\ IsNull(fr'[t].ret)
           /\ slot' = fr[t].new

\* C26, every state: what reset of a null handle does (it leaves every
\* variable as it is): decrement and unguarded_increment of null change no
\* count and raise no panic.
C26_NullState ==
  /\ \A t \in Threads, stay \in BOOLEAN :
       LET d == Decrement(Null, t, stay) IN
         d.count = count /\ d.mem = mem /\ d.doubleFree = doubleFree /\ d.ub = ub
  /\ IncCount(Null) = count /\ ~IncPanic(Null)

\* C26: null is handled without touching any count.
C26_Null == [][C26_NullStep]_vars /\ []C26_NullState

\* C26 witness: the slot was emptied by a swap of a null handle, and a
\* compare_exchange(null, new) with `new` a block has succeeded on it and
\* returns a null handle.
C26_Witness ==
  \E t \in Threads :
    /\ AtRet(t) /\ fr[t].kind = "compare_exchange" /\ fr[t].ok
    /\ fr[t].cur = Null /\ fr[t].atCas = Null /\ IsNull(fr[t].ret)
    /\ fr[t].new \in Blocks /\ slot = fr[t].new /\ fr[t].prevInst = Null
    /\ \A b \in Blocks : b # fr[t].new => count[b] = 0

====
